---- MODULE Spec2Model ----
(***************************************************************************)
(* isodraw: the drawing state engine of the isometric drawing tool.        *)
(*                                                                         *)
(* Two implementations of the same engine live in the repository and both  *)
(* are modelled here over one set of state variables:                      *)
(*   impl = "script" : script.js, class IsometricDrawingTool with the      *)
(*                     command pattern (CommandManager and six Command     *)
(*                     classes);                                           *)
(*   impl = "store"  : the zustand drawingStore (useDrawingStore) driven   *)
(*                     by CanvasEngine.                                    *)
(*                                                                         *)
(* Coordinates.  A screen point is kept relative to the canvas centre      *)
(* (originX, originY).  Its x is counted in thirds of isoWidth and its y   *)
(* in thirds of isoHeight, so that isoWidth = isoHeight = 3 units, a grid  *)
(* intersection (gx, gy) is the point (3(gx-gy), 3(gx+gy)) and pointer     *)
(* positions strictly inside a grid triangle are expressible.  One x unit  *)
(* is 30*cos(30deg)/3 px (square 75) and one y unit is 30*sin(30deg)/3 px  *)
(* (square 25).                                                            *)
(*                                                                         *)
(* Indices.  JavaScript arrays are 0-based with -1 for "none"; sequences   *)
(* here are 1-based with 0 for "none" (selectedShapeIndex, shapeIndex,     *)
(* pointIndex).                                                            *)
(*                                                                         *)
(* Object identity.  script.js shares shape objects between the live       *)
(* this.shapes array and the command that holds them.  Every live shape    *)
(* carries obj = [cmd, slot]: the position, in the command timeline        *)
(* (undoStack followed by the reversed redoStack), of the command whose    *)
(* payload is the very same JavaScript object, and the slot inside a batch *)
(* payload; cmd = 0 when no command on either stack references the object. *)
(* A write to a live shape is written through to that payload.             *)
(***************************************************************************)
EXTENDS Integers, Sequences, FiniteSets, TLC

VARIABLES
  impl,                \* which implementation is running
  shapes,              \* this.shapes / state.shapes
  paletteColors,       \* this.paletteColors / state.paletteColors
  shapeIdCounter,      \* this.shapeIdCounter / state.shapeIdCounter
  undoStack,           \* commandManager.undoStack / state.undoStack
  redoStack,           \* commandManager.redoStack / state.redoStack
  activeTool,          \* isFillMode/isDeleteMode/isEditMode / state.activeTool
  currentColor,        \* this.currentColor / state.currentColor
  isDrawing,           \* this.isDrawing / currentDrawing.isDrawing
  currentShapePoints,  \* this.currentShapePoints / currentDrawing.points
  isDragging,          \* this.isDragging / selection.isDragging
  selectedShapeIndex,  \* this.selectedShapeIndex / selection.shapeIndex
  selectedPointIndex,  \* this.selectedPointIndex / selection.pointIndex
  dragStartPoint,      \* this.dragStartPoint / selection.dragStartPoint (<<>> = null)
  seqSnaps,            \* history variable: shape sets before each command of the running sequence
  executed,            \* history variable: the number of commands recorded so far
  beforeUndo,          \* history variable: <<the shape collection before the undo>> right after an undo
  dragPre,             \* history variable: <<shapes and stacks at the pointer-down>> of the drag in progress
  call,                \* the running call of a geometry helper: its arguments, locals and result
  storage,             \* localStorage item "isometricDrawingState"
  quotaExceeded        \* localStorage.setItem throws (storage full or disabled)

drawingVars == <<shapes, paletteColors, shapeIdCounter, undoStack, redoStack>>
gestureVars == <<activeTool, currentColor, isDrawing, currentShapePoints,
                 isDragging, selectedShapeIndex, selectedPointIndex, dragStartPoint>>
historyVars == <<seqSnaps, executed, beforeUndo, dragPre>>
vars == <<impl, drawingVars, gestureVars, historyVars, call, storage, quotaExceeded>>

-----------------------------------------------------------------------------
(* Bounds of the model *)

MaxHist == 3      \* commands recorded in one session
MaxId == 2        \* shape ids are issued while shapeIdCounter stays within MaxId
MaxPts == 3       \* points placed in one drawing
MaxShapes == 2    \* entries of the shape collection
MaxCoord == 2     \* polygon vertices passed to isPointInPolygon lie on 0..MaxCoord squared
MaxVertices == 3  \* vertices of a polygon passed to isPointInPolygon
MaxGrid == 2      \* grid coordinates passed to gridToScreen lie in -MaxGrid..MaxGrid
MaxScreen == 6    \* pointer positions passed to screenToNearestGridPoint lie in -MaxScreen..MaxScreen
MaxCalls == 4     \* conversions applied one after the other
MaxSwatches == 11  \* shapes of the swatch file, one colour each
MaxAdds == 2      \* calls of addPaletteColor on one palette
MaxReplay == 3    \* undo and redo steps replayed after a reload

(* Program constants *)

isoWidth == 3
isoHeight == 3
dragPointRadius == 8
maxPaletteSize == 10

Black == "#000000"
Red == "#FF0000"
Colors == {Black, Red}

-----------------------------------------------------------------------------
(* Pointer positions and imported files used as inputs *)

Pt(a, b) == [x |-> a, y |-> b]

G00 == Pt(0, 0)        \* grid (0,0)
G10 == Pt(3, 3)        \* grid (1,0)
G01 == Pt(-3, 3)       \* grid (0,1)
Inner == Pt(0, 2)      \* strictly inside the triangle G00 G10 G01

Triangle == <<G00, G10, G01>>

\* pointer positions offered to each kind of pointer event
DrawPath == Triangle \o <<Pt(-6, 0)>>   \* the outline the user draws, vertex by vertex
HitClicks == {Inner}                \* pointer-down in fill and delete mode
GrabClicks == {G01}                 \* pointer-down in edit mode
MoveClicks == {G00, G01}            \* pointer-move during a drag

\* pointer-down in draw mode: the next vertex of the outline until MaxPts
\* vertices are placed, then a click back on the first vertex to close it
DrawClicks(points) ==
  LET n == Len(points)
  IN  IF n < MaxPts /\ n < Len(DrawPath) THEN {DrawPath[n + 1]} ELSE {DrawPath[1]}

\* results of parseSVGContent for the files offered to import
ImportFiles == { << [points |-> Triangle, color |-> Black],
                    [points |-> Triangle, color |-> Red] >> }

-----------------------------------------------------------------------------
(* CoordinateTransform *)

\* Math.round(n / d) for d > 0: the nearest integer, halves rounded up
Round(n, d) == (2 * n + d) \div (2 * d)

screenToNearestGridPointSwapped(p) ==
  [x |-> Round(p.y * isoWidth - p.x * isoHeight, 2 * isoWidth * isoHeight),
   y |-> Round(p.x * isoHeight + p.y * isoWidth, 2 * isoWidth * isoHeight)]

screenToNearestGridPoint(p) ==
  [x |-> Round(p.x * isoHeight + p.y * isoWidth, 2 * isoWidth * isoHeight),
   y |-> Round(p.y * isoWidth - p.x * isoHeight, 2 * isoWidth * isoHeight)]

gridToScreen(g) == Pt((g.x - g.y) * isoWidth, (g.x + g.y) * isoHeight)

Snap(p) == gridToScreen(screenToNearestGridPoint(p))

\* dx*dx + dy*dy in px^2 (see the note on units)
DistSq(p, q) == 75 * (p.x - q.x) * (p.x - q.x) + 25 * (p.y - q.y) * (p.y - q.y)

\* a tolerance of two drag radii: the neighbouring grid intersections fall inside
closeToleranceSqTwoRadii == (dragPointRadius * 4) * (dragPointRadius * 4)

closeToleranceSq == (dragPointRadius * 3 * dragPointRadius * 3) \div 4

-----------------------------------------------------------------------------
(* HitTester *)

StraddlesInclusive(p, pi, pj) == (pi.y >= p.y) # (pj.y > p.y)

\* the left operand of && in intersect: yi > y !== yj > y; the right operand,
\* with its division by (yj - yi), is evaluated only when this is true
Straddles(p, pi, pj) == (pi.y > p.y) # (pj.y > p.y)

\* one edge (i, j) of the ray cast; the division is reached only when the
\* two ends are on different sides of the ray, hence yj # yi
EdgeIntersects(p, pi, pj) ==
  IF Straddles(p, pi, pj)
  THEN IF pj.y - pi.y > 0
       THEN (p.x - pi.x) * (pj.y - pi.y) < (pj.x - pi.x) * (p.y - pi.y)
       ELSE (p.x - pi.x) * (pj.y - pi.y) > (pj.x - pi.x) * (p.y - pi.y)
  ELSE FALSE

isPointInPolygonOpenPath(p, polygon) ==
  LET crossings == {i \in 2..Len(polygon) : EdgeIntersects(p, polygon[i], polygon[i - 1])}
  IN  Cardinality(crossings) % 2 = 1

isPointInPolygon(p, polygon) ==
  LET n == Len(polygon)
      Prev(i) == IF i = 1 THEN n ELSE i - 1
      crossings == {i \in 1..n : EdgeIntersects(p, polygon[i], polygon[Prev(i)])}
  IN  Cardinality(crossings) % 2 = 1

\* the topmost shape (largest index) satisfying Hit, 0 when there is none
TopmostIndex(shs, Hit(_)) ==
  LET hits == {i \in 1..Len(shs) : Hit(shs[i])}
  IN  IF hits = {} THEN 0 ELSE CHOOSE i \in hits : \A k \in hits : k <= i

\* edit mode: the first point, topmost shape first, within dragPointRadius
PointNear(p, q) == DistSq(p, q) < dragPointRadius * dragPointRadius

FindDragPoint(shs, p) ==
  LET i == TopmostIndex(shs, LAMBDA s : \E j \in 1..Len(s.points) : PointNear(p, s.points[j]))
  IN  IF i = 0 THEN <<0, 0>>
      ELSE <<i, CHOOSE j \in 1..Len(shs[i].points) :
                  /\ PointNear(p, shs[i].points[j])
                  /\ \A k \in 1..(j - 1) : ~PointNear(p, shs[i].points[k])>>

-----------------------------------------------------------------------------
(* Sequence helpers (Array.prototype) *)

RemoveAt(s, i) == SubSeq(s, 1, i - 1) \o SubSeq(s, i + 1, Len(s))

\* splice(i, 0, x): a start beyond the end is clamped to the end
InsertAt(s, i, x) ==
  LET k == IF i > Len(s) + 1 THEN Len(s) + 1 ELSE i
  IN  SubSeq(s, 1, k - 1) \o <<x>> \o SubSeq(s, k, Len(s))

\* findIndex(shape => shape.id === id), 0 when absent
IndexOfId(shs, id) ==
  LET hits == {i \in 1..Len(shs) : shs[i].id = id}
  IN  IF hits = {} THEN 0 ELSE CHOOSE i \in hits : \A k \in hits : i <= k

HasId(shs, id) == \E i \in 1..Len(shs) : shs[i].id = id

Range(s) == {s[i] : i \in 1..Len(s)}

\* points[j] = p; an index one past the end appends, a larger one leaves holes
Hole == [x |-> "undefined", y |-> "undefined"]
SetPoint(pts, j, p) ==
  [i \in 1..(IF j > Len(pts) THEN j ELSE Len(pts)) |->
      IF i = j THEN p ELSE IF i <= Len(pts) THEN pts[i] ELSE Hole]

-----------------------------------------------------------------------------
(* SVG documents.  A document is the list of its elements in document order *)
(* and whether it has a group with id "shapes"; an element has a tag,       *)
(* whether it lies inside that group, its points attribute (absent, or the  *)
(* list of its whitespace-separated pairs) and its fill and stroke          *)
(* attributes ("" when absent).  A pair is the two texts around its comma;  *)
(* a text is the decimal text of a number or something parseFloat cannot    *)
(* read (a missing second half included).                                   *)

NumberText(n) == <<"number", n>>      \* `${n}`
JunkText == <<"junk", 0>>

parseFloat(text) ==
  IF text[1] = "number" THEN [isNaN |-> FALSE, value |-> text[2]]
  ELSE [isNaN |-> TRUE, value |-> 0]

PairTextSwapped(p) == [xStr |-> NumberText(p.y), yStr |-> NumberText(p.x)]

PairText(p) == [xStr |-> NumberText(p.x), yStr |-> NumberText(p.y)]

RECURSIVE ParsePointsUnsnapped(_)
ParsePointsUnsnapped(pairs) ==
  IF pairs = <<>> THEN <<>>
  ELSE LET x == parseFloat(Head(pairs).xStr)
           y == parseFloat(Head(pairs).yStr)
       IN  IF ~x.isNaN /\ ~y.isNaN
           THEN <<Pt(x.value, y.value)>> \o ParsePointsUnsnapped(Tail(pairs))
           ELSE ParsePointsUnsnapped(Tail(pairs))

\* the map over the pairs of a points attribute, followed by the filter that
\* drops the nulls
RECURSIVE ParsePoints(_)
ParsePoints(pairs) ==
  IF pairs = <<>> THEN <<>>
  ELSE LET x == parseFloat(Head(pairs).xStr)
           y == parseFloat(Head(pairs).yStr)
       IN  IF ~x.isNaN /\ ~y.isNaN
           THEN <<Snap(Pt(x.value, y.value))>> \o ParsePoints(Tail(pairs))
           ELSE ParsePoints(Tail(pairs))

ElementColor(el) ==
  IF el.fill # "" THEN el.fill ELSE IF el.stroke # "" THEN el.stroke ELSE "#000000"

RECURSIVE ParseElementsKeepsSingle(_)
ParseElementsKeepsSingle(els) ==
  IF els = <<>> THEN <<>>
  ELSE LET el == Head(els)
           points == ParsePoints(el.points)
       IN  IF Len(points) > 0
           THEN <<[points |-> points, color |-> ElementColor(el)]>>
                  \o ParseElementsKeepsSingle(Tail(els))
           ELSE ParseElementsKeepsSingle(Tail(els))

RECURSIVE ParseElements(_)
ParseElements(els) ==
  IF els = <<>> THEN <<>>
  ELSE LET el == Head(els)
           points == ParsePoints(el.points)
       IN  IF ~el.hasPoints \/ el.points = <<>> THEN ParseElements(Tail(els))
           ELSE IF Len(points) > 1
                THEN <<[points |-> points, color |-> ElementColor(el)]>>
                       \o ParseElements(Tail(els))
                ELSE ParseElements(Tail(els))

IsShapeElement(el) == el.tag \in {"polygon", "polyline"}

\* script.js: the shapes of the group with id "shapes" when the document has
\* one, otherwise of the whole document
parseSVGContent(svgDoc) ==
  ParseElements(IF svgDoc.group
                THEN SelectSeq(svgDoc.elements, LAMBDA el : el.inGroup /\ IsShapeElement(el))
                ELSE SelectSeq(svgDoc.elements, IsShapeElement))

\* CanvasEngine: the shapes of the whole document
EngineParseSVGContent(svgDoc) ==
  ParseElements(SelectSeq(svgDoc.elements, IsShapeElement))

ShapeElement(sh, grouped) ==
  [tag |-> IF Len(sh.points) > 2 THEN "polygon" ELSE "polyline",
   inGroup |-> grouped, hasPoints |-> TRUE,
   points |-> [i \in 1..Len(sh.points) |-> PairText(sh.points[i])],
   fill |-> IF Len(sh.points) > 2 THEN sh.color ELSE "none",
   stroke |-> sh.color]

\* script.js: the document handed to downloadSVG
exportSVG(shs) ==
  IF Len(shs) = 0 THEN [group |-> FALSE, elements |-> <<>>]
  ELSE LET exported == SelectSeq(shs, LAMBDA sh : Len(sh.points) >= 2)
       IN  [group |-> TRUE,
            elements |-> [i \in 1..Len(exported) |-> ShapeElement(exported[i], TRUE)]]

\* CanvasEngine: the document handed to downloadSVG
exportToSVG(shs) ==
  [group |-> FALSE, elements |-> [i \in 1..Len(shs) |-> ShapeElement(shs[i], FALSE)]]

-----------------------------------------------------------------------------
(* ShapeStore: shapes, identity, palette *)

NoObj == [cmd |-> 0, slot |-> 0]

\* the plain data of a shape: what JSON.parse(JSON.stringify(shape)) copies
Val(s) == [id |-> s.id, points |-> s.points, color |-> s.color]
Vals(shs) == [i \in 1..Len(shs) |-> Val(shs[i])]
Ids(vs) == [i \in 1..Len(vs) |-> vs[i].id]

\* the object held in payload slot m of the command at timeline position k,
\* seen as an entry of the live array
Live(v, k, m) == [id |-> v.id, points |-> v.points, color |-> v.color,
                  obj |-> [cmd |-> k, slot |-> m]]

\* a fresh object no command references
Fresh(v) == Live(v, 0, 0)
Freshs(vs) == [i \in 1..Len(vs) |-> Fresh(vs[i])]

FirstIndexOf(s, e) ==
  LET hits == {i \in 1..Len(s) : s[i] = e}
  IN  IF hits = {} THEN 0 ELSE CHOOSE i \in hits : \A k \in hits : i <= k

addPaletteColorUnbounded(pal, color) ==
  LET existingIndex == FirstIndexOf(pal, color)
      spliced == IF existingIndex # 0 THEN RemoveAt(pal, existingIndex) ELSE pal
  IN  Append(spliced, color)

addPaletteColorKeepsPlace(pal, color) ==
  LET existingIndex == FirstIndexOf(pal, color)
      pushed == IF existingIndex # 0 THEN pal ELSE Append(pal, color)
  IN  IF Len(pushed) > maxPaletteSize THEN Tail(pushed) ELSE pushed

addPaletteColor(pal, color) ==
  LET existingIndex == FirstIndexOf(pal, color)
      spliced == IF existingIndex # 0 THEN RemoveAt(pal, existingIndex) ELSE pal
      pushed == Append(spliced, color)
  IN  IF Len(pushed) > maxPaletteSize THEN Tail(pushed) ELSE pushed

RECURSIVE AddPaletteColors(_, _)
\* forEach(shape => addPaletteColor(shape.color))
AddPaletteColors(pal, shs) ==
  IF shs = <<>> THEN pal
  ELSE AddPaletteColors(addPaletteColor(pal, Head(shs).color), Tail(shs))

RECURSIVE UniqueColors(_, _)
\* Array.from(new Set(colors)): first occurrences, in order
UniqueColors(shs, seen) ==
  IF shs = <<>> THEN <<>>
  ELSE IF Head(shs).color \in seen THEN UniqueColors(Tail(shs), seen)
       ELSE <<Head(shs).color>> \o UniqueColors(Tail(shs), seen \cup {Head(shs).color})

renderPaletteFromShapes(shs) ==
  LET uniqueColors == UniqueColors(shs, {})
      n == Len(uniqueColors)
  IN  IF n > maxPaletteSize THEN SubSeq(uniqueColors, n - maxPaletteSize + 1, n)
      ELSE uniqueColors

\* the five persistent fields as one record
Drawing == [shapes |-> shapes, paletteColors |-> paletteColors,
            shapeIdCounter |-> shapeIdCounter,
            undoStack |-> undoStack, redoStack |-> redoStack]

SetDrawing(D) ==
  /\ shapes' = D.shapes
  /\ paletteColors' = D.paletteColors
  /\ shapeIdCounter' = D.shapeIdCounter
  /\ undoStack' = D.undoStack
  /\ redoStack' = D.redoStack

-----------------------------------------------------------------------------
(* script.js: the Command classes *)

PatchPayload(c, m, v) ==
  CASE c.type = "AddShapeCommand" -> [c EXCEPT !.shapeData = v]
    [] c.type = "DeleteShapeCommand" -> [c EXCEPT !.deletedShape = v]
    [] c.type = "ClearAllCommand" -> [c EXCEPT !.originalShapes[m] = v]
    [] c.type = "ImportShapesCommand" -> [c EXCEPT !.shapesToAdd[m] = v]
    [] OTHER -> c

\* a write to the object behind shapes[i]: seen by the live array and by the
\* command whose payload is that object
WriteLive(D, i, v) ==
  LET o == D.shapes[i].obj
      nu == Len(D.undoStack)
      nr == Len(D.redoStack)
      d1 == [D EXCEPT !.shapes[i] = Live(v, o.cmd, o.slot)]
  IN  IF o.cmd = 0 \/ o.cmd > nu + nr THEN d1
      ELSE IF o.cmd <= nu
           THEN [d1 EXCEPT !.undoStack[o.cmd] = PatchPayload(@, o.slot, v)]
           ELSE [d1 EXCEPT !.redoStack[nu + nr + 1 - o.cmd] = PatchPayload(@, o.slot, v)]

\* objects whose command leaves the stacks stay live, referenced by no command
Orphan(shs, k) ==
  [i \in 1..Len(shs) |-> IF shs[i].obj.cmd >= k THEN [shs[i] EXCEPT !.obj = NoObj] ELSE shs[i]]

RECURSIVE ImportExecute(_, _, _, _)
ImportExecute(D, k, shapesToAdd, m) ==
  IF m > Len(shapesToAdd) THEN D
  ELSE LET shape == shapesToAdd[m]
           d1 == IF ~HasId(D.shapes, shape.id)
                 THEN [D EXCEPT !.shapes = Append(@, Live(shape, k, m)),
                                !.paletteColors = addPaletteColor(@, shape.color)]
                 ELSE D
       IN  ImportExecute(d1, k, shapesToAdd, m + 1)

\* an undo of the import that stops after the first shape of the batch
ImportRemoveFirstOnly(shs, shapesToAdd) ==
  IF shapesToAdd = <<>> THEN shs
  ELSE LET index == IndexOfId(shs, Head(shapesToAdd).id)
       IN  IF index > 0 THEN RemoveAt(shs, index) ELSE shs

RECURSIVE ImportRemove(_, _)
ImportRemove(shs, shapesToAdd) ==
  IF shapesToAdd = <<>> THEN shs
  ELSE LET index == IndexOfId(shs, Head(shapesToAdd).id)
       IN  ImportRemove(IF index > 0 THEN RemoveAt(shs, index) ELSE shs, Tail(shapesToAdd))

\* command.execute() of the command c standing at timeline position k
CommandExecute(c, k, D) ==
  CASE c.type = "AddShapeCommand" ->
         [D EXCEPT !.shapes = Append(@, Live(c.shapeData, k, 0)),
                   !.paletteColors = addPaletteColor(@, c.shapeData.color)]
    [] c.type = "DeleteShapeCommand" ->
         IF c.shapeIndex >= 1 /\ c.shapeIndex <= Len(D.shapes)
         THEN [D EXCEPT !.shapes = RemoveAt(@, c.shapeIndex)]
         ELSE D
    [] c.type = "FillShapeCommand" ->
         IF c.shapeIndex \in 1..Len(D.shapes)
         THEN LET d1 == WriteLive(D, c.shapeIndex,
                           [Val(D.shapes[c.shapeIndex]) EXCEPT !.color = c.newColor])
              IN  [d1 EXCEPT !.paletteColors = addPaletteColor(@, c.newColor)]
         ELSE D
    [] c.type = "EditShapePointCommand" ->
         IF /\ c.shapeIndex \in 1..Len(D.shapes)
            /\ c.pointIndex \in 1..Len(D.shapes[c.shapeIndex].points)
         THEN WriteLive(D, c.shapeIndex,
                 [Val(D.shapes[c.shapeIndex]) EXCEPT !.points[c.pointIndex] = c.newPoint])
         ELSE D
    [] c.type = "ClearAllCommand" ->
         [D EXCEPT !.shapes = <<>>, !.paletteColors = <<>>]
    [] c.type = "ImportShapesCommand" ->
         ImportExecute(D, k, c.shapesToAdd, 1)

\* command.undo() of the command c standing at timeline position k
CommandUndo(c, k, D) ==
  CASE c.type = "AddShapeCommand" ->
         LET index == IndexOfId(D.shapes, c.shapeData.id)
         IN  IF index > 0 THEN [D EXCEPT !.shapes = RemoveAt(@, index)] ELSE D
    [] c.type = "DeleteShapeCommand" ->
         [D EXCEPT !.shapes = InsertAt(@, c.shapeIndex, Live(c.deletedShape, k, 0)),
                   !.paletteColors = addPaletteColor(@, c.deletedShape.color)]
    [] c.type = "FillShapeCommand" ->
         IF c.shapeIndex \in 1..Len(D.shapes)
         THEN WriteLive(D, c.shapeIndex,
                 [Val(D.shapes[c.shapeIndex]) EXCEPT !.color = c.oldColor])
         ELSE D
    [] c.type = "EditShapePointCommand" ->
         IF /\ c.shapeIndex \in 1..Len(D.shapes)
            /\ c.pointIndex \in 1..Len(D.shapes[c.shapeIndex].points)
         THEN WriteLive(D, c.shapeIndex,
                 [Val(D.shapes[c.shapeIndex]) EXCEPT !.points[c.pointIndex] = c.oldPoint])
         ELSE D
    [] c.type = "ClearAllCommand" ->
         [D EXCEPT !.shapes = [m \in 1..Len(c.originalShapes) |-> Live(c.originalShapes[m], k, m)],
                   !.paletteColors = AddPaletteColors(<<>>, c.originalShapes)]
    [] c.type = "ImportShapesCommand" ->
         LET remaining == ImportRemove(D.shapes, c.shapesToAdd)
         IN  [D EXCEPT !.shapes = remaining,
                       !.paletteColors = renderPaletteFromShapes(remaining)]

(* script.js: CommandManager *)

\* AddShapeCommand.execute assigns the id on the first execution (id 0: undefined)
NeedsId(c) == c.type = "AddShapeCommand" /\ c.shapeData.id = 0

CommandManagerExecute(c, D) ==
  LET k == Len(D.undoStack) + 1
      c1 == IF NeedsId(c) THEN [c EXCEPT !.shapeData.id = D.shapeIdCounter + 1] ELSE c
      d0 == [D EXCEPT !.shapes = Orphan(@, k),
                      !.shapeIdCounter = IF NeedsId(c) THEN @ + 1 ELSE @]
      d1 == CommandExecute(c1, k, d0)
  IN  [d1 EXCEPT !.undoStack = Append(@, c1), !.redoStack = <<>>]

CommandManagerUndo(D) ==
  IF Len(D.undoStack) > 0
  THEN LET k == Len(D.undoStack)
           d1 == CommandUndo(D.undoStack[k], k, D)
       IN  [d1 EXCEPT !.undoStack = SubSeq(@, 1, k - 1),
                      !.redoStack = Append(@, d1.undoStack[k])]
  ELSE D

\* a redo that re-applies the command and does not push it back on undoStack
CommandManagerRedoDropsCommand(D) ==
  IF Len(D.redoStack) > 0
  THEN LET k == Len(D.undoStack) + 1
           n == Len(D.redoStack)
           d1 == CommandExecute(D.redoStack[n], k, D)
       IN  [d1 EXCEPT !.redoStack = SubSeq(@, 1, n - 1)]
  ELSE D

CommandManagerRedo(D) ==
  IF Len(D.redoStack) > 0
  THEN LET k == Len(D.undoStack) + 1
           n == Len(D.redoStack)
           d1 == CommandExecute(D.redoStack[n], k, D)
       IN  [d1 EXCEPT !.redoStack = SubSeq(@, 1, n - 1),
                      !.undoStack = Append(@, d1.redoStack[n])]
  ELSE D

\* ids taken before the counter is advanced: counter .. counter+n-1
WithIdsFromCounter(list, counter) ==
  [m \in 1..Len(list) |-> [id |-> counter + m - 1, points |-> list[m].points,
                           color |-> list[m].color]]

\* getNextShapeId over n shapes: ids counter+1 .. counter+n
WithIds(list, counter) ==
  [m \in 1..Len(list) |-> [id |-> counter + m, points |-> list[m].points,
                           color |-> list[m].color]]

-----------------------------------------------------------------------------
(* The whole state as one record; a handler maps it to the state it leaves. *)
(* op names what the handler did to the history: "execute" (a new command  *)
(* was recorded), "undo", "redo" (a command was moved between the stacks), *)
(* "undo_empty", "redo_empty" (called on an empty stack), "none".          *)

State == [shapes |-> shapes, paletteColors |-> paletteColors,
          shapeIdCounter |-> shapeIdCounter,
          undoStack |-> undoStack, redoStack |-> redoStack,
          activeTool |-> activeTool, currentColor |-> currentColor,
          isDrawing |-> isDrawing, currentShapePoints |-> currentShapePoints,
          isDragging |-> isDragging, selectedShapeIndex |-> selectedShapeIndex,
          selectedPointIndex |-> selectedPointIndex,
          dragStartPoint |-> dragStartPoint, op |-> "none", storage |-> storage,
          quotaExceeded |-> quotaExceeded]

DrawingOf(S) == [shapes |-> S.shapes, paletteColors |-> S.paletteColors,
                 shapeIdCounter |-> S.shapeIdCounter,
                 undoStack |-> S.undoStack, redoStack |-> S.redoStack]

WithDrawing(S, D, op) ==
  [S EXCEPT !.shapes = D.shapes, !.paletteColors = D.paletteColors,
            !.shapeIdCounter = D.shapeIdCounter,
            !.undoStack = D.undoStack, !.redoStack = D.redoStack, !.op = op]

-----------------------------------------------------------------------------
(* script.js: class IsometricDrawingTool *)

\* {...command} without tool, under the name of its class
SerializeCommand(command) ==
  [isNull |-> FALSE, type |-> command.type, hasData |-> TRUE,
   data |-> [f \in DOMAIN command \ {"type"} |-> command[f]]]

serializeCommandStack(stack) == [i \in 1..Len(stack) |-> SerializeCommand(stack[i])]

\* JSON.stringify of the five fields; nothing is absent from the object
StateItem(shs, pal, counter, undo, redo) ==
  [kind |-> "state", absent |-> {}, shapes |-> shs, paletteColors |-> pal,
   shapeIdCounter |-> counter, undoStack |-> undo, redoStack |-> redo]

\* localStorage holds no item
NoItem == [kind |-> "none"]

\* try { localStorage.setItem(...) } catch: a failing write is logged
saveStateToLocalStorage(S) ==
  IF S.quotaExceeded THEN S
  ELSE [S EXCEPT !.storage = StateItem(Vals(S.shapes), S.paletteColors, S.shapeIdCounter,
                                       serializeCommandStack(S.undoStack),
                                       serializeCommandStack(S.redoStack))]

clearLocalStorage(S) == [S EXCEPT !.storage = NoItem]

\* commandManager.execute(command) called from a handler
ToolExecute(S, c) ==
  saveStateToLocalStorage(WithDrawing(S, CommandManagerExecute(c, DrawingOf(S)), "execute"))

\* redrawAll dereferences shapes[selectedShapeIndex].points[selectedPointIndex]
\* while a point is being dragged in edit mode: a TypeError when it is missing
RedrawThrows(S) ==
  /\ S.activeTool = "edit" /\ S.isDragging
  /\ S.selectedShapeIndex > 0 /\ S.selectedPointIndex > 0
  /\ \/ S.selectedShapeIndex > Len(S.shapes)
     \/ S.selectedPointIndex > Len(S.shapes[S.selectedShapeIndex].points)

cancelDrawing(S) == [S EXCEPT !.isDrawing = FALSE, !.currentShapePoints = <<>>]

setActiveTool(S, toolName) ==
  LET s1 == [S EXCEPT !.isDrawing = FALSE, !.activeTool = toolName,
                      !.isDragging = FALSE,
                      !.selectedShapeIndex = 0, !.selectedPointIndex = 0]
  IN  IF Len(s1.currentShapePoints) > 0 /\ toolName # "draw"
      THEN cancelDrawing(s1) ELSE s1

ToolMouseDownEdit(S, p) ==
  LET hit == FindDragPoint(S.shapes, p)
      s1 == [S EXCEPT !.selectedShapeIndex = 0, !.selectedPointIndex = 0,
                      !.isDragging = FALSE, !.dragStartPoint = <<>>]
  IN  IF hit[1] > 0
      THEN [s1 EXCEPT !.selectedShapeIndex = hit[1], !.selectedPointIndex = hit[2],
                      !.isDragging = TRUE,
                      !.dragStartPoint = <<S.shapes[hit[1]].points[hit[2]]>>]
      ELSE s1

ToolMouseDownDelete(S, p) ==
  LET i == TopmostIndex(S.shapes, LAMBDA s : isPointInPolygon(p, s.points))
  IN  IF i > 0
      THEN ToolExecute(S, [type |-> "DeleteShapeCommand", shapeIndex |-> i,
                           deletedShape |-> Val(S.shapes[i])])
      ELSE S

ToolMouseDownFill(S, p) ==
  LET i == TopmostIndex(S.shapes,
             LAMBDA s : Len(s.points) > 2 /\ isPointInPolygon(p, s.points))
  IN  IF i > 0 /\ S.shapes[i].color # S.currentColor
      THEN ToolExecute(S, [type |-> "FillShapeCommand", shapeIndex |-> i,
                           oldColor |-> S.shapes[i].color,
                           newColor |-> S.currentColor,
                           targetId |-> S.shapes[i].id])
      ELSE S

\* a draw branch that closes on any click near the start point
ToolMouseDownDrawClosesEarly(S, p) ==
  LET clickedScreenPos == Snap(p)
      n == Len(S.currentShapePoints)
  IN  IF ~S.isDrawing
      THEN [S EXCEPT !.isDrawing = TRUE, !.currentShapePoints = <<clickedScreenPos>>]
      ELSE LET startPoint == S.currentShapePoints[1]
               lastPoint == S.currentShapePoints[n]
               isClosing == DistSq(clickedScreenPos, startPoint) < closeToleranceSq
           IN  IF isClosing
               THEN LET s1 == ToolExecute(S, [type |-> "AddShapeCommand",
                                  shapeData |-> [id |-> 0,
                                                 points |-> S.currentShapePoints,
                                                 color |-> S.currentColor]])
                    IN  [s1 EXCEPT !.isDrawing = FALSE, !.currentShapePoints = <<>>]
               ELSE IF clickedScreenPos # lastPoint
                    THEN [S EXCEPT !.currentShapePoints = Append(@, clickedScreenPos)]
                    ELSE S

ToolMouseDownDraw(S, p) ==
  LET clickedScreenPos == Snap(p)
      n == Len(S.currentShapePoints)
  IN  IF ~S.isDrawing
      THEN [S EXCEPT !.isDrawing = TRUE, !.currentShapePoints = <<clickedScreenPos>>]
      ELSE LET startPoint == S.currentShapePoints[1]
               lastPoint == S.currentShapePoints[n]
               isClosing == /\ DistSq(clickedScreenPos, startPoint) < closeToleranceSq
                            /\ n >= 3
           IN  IF isClosing
               THEN LET s1 == ToolExecute(S, [type |-> "AddShapeCommand",
                                  shapeData |-> [id |-> 0,
                                                 points |-> S.currentShapePoints,
                                                 color |-> S.currentColor]])
                    IN  [s1 EXCEPT !.isDrawing = FALSE, !.currentShapePoints = <<>>]
               ELSE IF clickedScreenPos # lastPoint
                    THEN [S EXCEPT !.currentShapePoints = Append(@, clickedScreenPos)]
                    ELSE S

handleMouseDown(S, p) ==
  CASE S.activeTool = "edit" -> ToolMouseDownEdit(S, p)
    [] S.activeTool = "delete" -> ToolMouseDownDelete(S, p)
    [] S.activeTool = "fill" -> ToolMouseDownFill(S, p)
    [] OTHER -> ToolMouseDownDraw(S, p)

\* the drag branch; outside a drag the handler only moves the snap preview
handleMouseMove(S, p) ==
  IF S.isDragging /\ S.activeTool = "edit"
     /\ S.selectedShapeIndex # 0 /\ S.selectedPointIndex # 0
     /\ S.selectedShapeIndex <= Len(S.shapes)
  THEN LET sh == S.shapes[S.selectedShapeIndex]
           D == WriteLive(DrawingOf(S), S.selectedShapeIndex,
                   [Val(sh) EXCEPT !.points = SetPoint(@, S.selectedPointIndex, Snap(p))])
       IN  WithDrawing(S, D, "none")
  ELSE S

handleMouseUp(S) ==
  IF S.isDragging /\ S.activeTool = "edit"
  THEN LET reset == [S EXCEPT !.isDragging = FALSE, !.selectedShapeIndex = 0,
                              !.selectedPointIndex = 0, !.dragStartPoint = <<>>]
       IN  IF S.selectedShapeIndex > 0 /\ S.selectedPointIndex > 0
              /\ S.dragStartPoint # <<>>
           THEN IF \/ S.selectedShapeIndex > Len(S.shapes)
                   \/ S.selectedPointIndex > Len(S.shapes[S.selectedShapeIndex].points)
                THEN S   \* TypeError: the handler stops before any assignment
                ELSE LET finalPoint ==
                           S.shapes[S.selectedShapeIndex].points[S.selectedPointIndex]
                     IN  IF finalPoint # S.dragStartPoint[1]
                         THEN LET s1 == ToolExecute(S,
                                    [type |-> "EditShapePointCommand",
                                     shapeIndex |-> S.selectedShapeIndex,
                                     pointIndex |-> S.selectedPointIndex,
                                     oldPoint |-> S.dragStartPoint[1],
                                     newPoint |-> finalPoint,
                                     targetId |-> S.shapes[S.selectedShapeIndex].id])
                              IN  [s1 EXCEPT !.isDragging = FALSE,
                                             !.selectedShapeIndex = 0,
                                             !.selectedPointIndex = 0,
                                             !.dragStartPoint = <<>>]
                         ELSE reset
           ELSE reset
  ELSE S

\* handleMouseOut ends a drag through handleMouseUp(null)
handleMouseOut(S) == handleMouseUp(S)

\* an undo that goes to the command manager also during a drawing
ToolUndoKeepsDrawing(S) ==
  IF Len(S.undoStack) > 0
  THEN saveStateToLocalStorage(WithDrawing(S, CommandManagerUndo(DrawingOf(S)), "undo"))
  ELSE [S EXCEPT !.op = "undo_empty"]

ToolUndo(S) ==
  IF S.isDrawing THEN cancelDrawing(S)
  ELSE IF Len(S.undoStack) > 0
       THEN saveStateToLocalStorage(WithDrawing(S, CommandManagerUndo(DrawingOf(S)), "undo"))
       ELSE [S EXCEPT !.op = "undo_empty"]

ToolRedo(S) ==
  IF Len(S.redoStack) > 0
  THEN saveStateToLocalStorage(WithDrawing(S, CommandManagerRedo(DrawingOf(S)), "redo"))
  ELSE [S EXCEPT !.op = "redo_empty"]

ToolEscape(S) ==
  IF S.isDrawing THEN cancelDrawing(S)
  ELSE IF S.activeTool # "draw" THEN setActiveTool(S, "draw")
       ELSE S

clearCanvas(S) ==
  LET s1 == IF Len(S.shapes) > 0
            THEN ToolExecute(S, [type |-> "ClearAllCommand",
                                 originalShapes |-> [i \in 1..Len(S.shapes) |-> Val(S.shapes[i])]])
            ELSE S
  IN  IF Len(S.shapes) > 0 /\ RedrawThrows(s1) THEN s1
      ELSE LET s2 == cancelDrawing(clearLocalStorage(s1))
           IN  IF RedrawThrows(s2) THEN s2
               ELSE [setActiveTool(s2, "draw") EXCEPT !.op = s1.op]

handleFileImport(S, importedShapesData) ==
  IF Len(importedShapesData) > 0
  THEN LET n == Len(importedShapesData)
           s1 == [S EXCEPT !.shapeIdCounter = @ + n]
       IN  ToolExecute(s1, [type |-> "ImportShapesCommand",
                            shapesToAdd |-> WithIds(importedShapesData, S.shapeIdCounter)])
  ELSE S

-----------------------------------------------------------------------------
(* drawingStore (useDrawingStore): entries of undoStack/redoStack are       *)
(* {type, payload}; an entry describes the change that undoes (on           *)
(* undoStack) or redoes (on redoStack) a user action.  targetId is a        *)
(* history field: the id of the shape an EDIT_SHAPE_POINT entry is about.   *)

FilterOutIds(shs, ids) == SelectSeq(shs, LAMBDA sh : sh.id \notin ids)
FilterIds(shs, ids) == SelectSeq(shs, LAMBDA sh : sh.id \in ids)

\* the switch (lastAction.type) of undo and of redo: the new shapes and
\* palette, and the entry that goes onto the other stack; threw = a
\* TypeError/SyntaxError ended the handler before set(...)
ApplyAction(lastAction, shs, pal) ==
  LET same == [shapes |-> shs, paletteColors |-> pal, entry |-> lastAction, threw |-> FALSE]
      pl == lastAction.payload
  IN  CASE lastAction.type = "DELETE_SHAPE" ->
             LET index == IndexOfId(shs, pl.shapeId)
             IN  IF index > 0
                 THEN [same EXCEPT !.entry = [type |-> "ADD_SHAPE",
                                              payload |-> [shape |-> Val(shs[index])]],
                                   !.shapes = FilterOutIds(shs, {pl.shapeId})]
                 ELSE same
        [] lastAction.type = "ADD_SHAPE" ->
             [same EXCEPT !.shapes = Append(shs, Fresh(pl.shape)),
                          !.paletteColors = addPaletteColor(pal, pl.shape.color)]
        [] lastAction.type = "FILL_SHAPE" ->
             LET index == IndexOfId(shs, pl.shapeId)
             IN  IF index > 0
                 THEN [same EXCEPT !.entry = [type |-> "FILL_SHAPE",
                                              payload |-> [shapeId |-> pl.shapeId,
                                                           color |-> shs[index].color]],
                                   !.shapes = [shs EXCEPT ![index].color = pl.color]]
                 ELSE same
        [] lastAction.type = "EDIT_SHAPE_POINT" ->
             IF pl.shapeIndex \in 1..Len(shs)
             THEN IF pl.pointIndex \in 1..Len(shs[pl.shapeIndex].points)
                  THEN [same EXCEPT !.entry = [lastAction EXCEPT !.payload.point =
                                                 shs[pl.shapeIndex].points[pl.pointIndex]],
                                    !.shapes = [shs EXCEPT ![pl.shapeIndex].points[pl.pointIndex] = pl.point]]
                  ELSE [same EXCEPT !.threw = TRUE]   \* deepCopy(undefined)
             ELSE same
        [] lastAction.type = "IMPORT_SHAPES" ->
             [same EXCEPT !.entry = [type |-> "DELETE_MULTIPLE_SHAPES",
                                     payload |-> [shapeIds |-> Ids(pl.shapes)]],
                          !.shapes = shs \o Freshs(pl.shapes),
                          !.paletteColors = AddPaletteColors(pal, pl.shapes)]
        [] lastAction.type = "DELETE_MULTIPLE_SHAPES" ->
             [same EXCEPT !.entry = [type |-> "IMPORT_SHAPES",
                                     payload |-> [shapes |-> Vals(FilterIds(shs, Range(pl.shapeIds)))]],
                          !.shapes = FilterOutIds(shs, Range(pl.shapeIds))]

\* an undo that resets redoStack when there is nothing to undo
StoreUndoEmptyDropsRedo(S) ==
  IF Len(S.undoStack) = 0 THEN [S EXCEPT !.redoStack = <<>>, !.op = "undo_empty"]
  ELSE LET n == Len(S.undoStack)
           r == ApplyAction(S.undoStack[n], S.shapes, S.paletteColors)
       IN  IF r.threw THEN S
           ELSE [S EXCEPT !.shapes = r.shapes, !.paletteColors = r.paletteColors,
                          !.undoStack = SubSeq(@, 1, n - 1),
                          !.redoStack = Append(@, r.entry), !.op = "undo"]

StoreUndo(S) ==
  IF Len(S.undoStack) = 0 THEN [S EXCEPT !.op = "undo_empty"]
  ELSE LET n == Len(S.undoStack)
           r == ApplyAction(S.undoStack[n], S.shapes, S.paletteColors)
       IN  IF r.threw THEN S
           ELSE [S EXCEPT !.shapes = r.shapes, !.paletteColors = r.paletteColors,
                          !.undoStack = SubSeq(@, 1, n - 1),
                          !.redoStack = Append(@, r.entry), !.op = "undo"]

StoreRedo(S) ==
  IF Len(S.redoStack) = 0 THEN [S EXCEPT !.op = "redo_empty"]
  ELSE LET n == Len(S.redoStack)
           r == ApplyAction(S.redoStack[n], S.shapes, S.paletteColors)
       IN  IF r.threw THEN S
           ELSE [S EXCEPT !.shapes = r.shapes, !.paletteColors = r.paletteColors,
                          !.redoStack = SubSeq(@, 1, n - 1),
                          !.undoStack = Append(@, r.entry), !.op = "redo"]

\* the push of a new entry that forgets to reset redoStack
\* the store's stacks hold plain data
StoreItem(S) ==
  StateItem(Vals(S.shapes), S.paletteColors, S.shapeIdCounter, S.undoStack, S.redoStack)

StoreSaveStateToLocalStorage(S) == [S EXCEPT !.storage = StoreItem(S)]

StorePushKeepsRedo(S, undoAction) ==
  [S EXCEPT !.undoStack = Append(@, undoAction), !.op = "execute"]

\* set(state => ({..., undoStack: [...state.undoStack, undoAction], redoStack: []}))
StorePush(S, undoAction) ==
  [S EXCEPT !.undoStack = Append(@, undoAction), !.redoStack = <<>>, !.op = "execute"]

StoreSetActiveTool(S, tool) ==
  [S EXCEPT !.activeTool = tool, !.selectedShapeIndex = 0, !.selectedPointIndex = 0,
            !.isDragging = FALSE, !.dragStartPoint = <<>>]

startDrawing(S, point) ==
  [S EXCEPT !.isDrawing = TRUE, !.currentShapePoints = <<point>>, !.activeTool = "draw"]

addDrawingPoint(S, point) ==
  IF ~S.isDrawing THEN S
  ELSE IF point # S.currentShapePoints[Len(S.currentShapePoints)]
       THEN [S EXCEPT !.currentShapePoints = Append(@, point)]
       ELSE S

StoreCancelDrawing(S) == [S EXCEPT !.isDrawing = FALSE, !.currentShapePoints = <<>>]

finishDrawing(S) ==
  IF ~S.isDrawing \/ Len(S.currentShapePoints) < 2
  THEN StoreCancelDrawing(S)
  ELSE LET newId == S.shapeIdCounter + 1
           newShape == [id |-> newId, points |-> S.currentShapePoints,
                        color |-> S.currentColor]
           s1 == StorePush(S, [type |-> "DELETE_SHAPE", payload |-> [shapeId |-> newId]])
       IN  [s1 EXCEPT !.shapes = Append(@, Fresh(newShape)),
                      !.shapeIdCounter = newId,
                      !.isDrawing = FALSE, !.currentShapePoints = <<>>,
                      !.paletteColors = addPaletteColor(@, S.currentColor)]

deleteShape(S, shapeId) ==
  LET index == IndexOfId(S.shapes, shapeId)
  IN  IF index = 0 THEN S
      ELSE [StorePush(S, [type |-> "ADD_SHAPE",
                          payload |-> [shape |-> Val(S.shapes[index])]])
              EXCEPT !.shapes = FilterOutIds(@, {shapeId})]

fillShape(S, shapeId, newColor) ==
  LET index == IndexOfId(S.shapes, shapeId)
  IN  IF index = 0 \/ S.shapes[index].color = newColor THEN S
      ELSE [StorePush(S, [type |-> "FILL_SHAPE",
                          payload |-> [shapeId |-> shapeId, color |-> S.shapes[index].color]])
              EXCEPT !.shapes = [i \in 1..Len(S.shapes) |->
                                   IF S.shapes[i].id = shapeId
                                   THEN [S.shapes[i] EXCEPT !.color = newColor]
                                   ELSE S.shapes[i]],
                     !.paletteColors = addPaletteColor(@, newColor)]

startDraggingPoint(S, shapeIndex, pointIndex, startPoint) ==
  [S EXCEPT !.selectedShapeIndex = shapeIndex, !.selectedPointIndex = pointIndex,
            !.isDragging = TRUE, !.dragStartPoint = <<startPoint>>]

dragPoint(S, newPoint) ==
  IF ~S.isDragging THEN S
  ELSE IF S.selectedShapeIndex \in 1..Len(S.shapes)
       THEN [S EXCEPT !.shapes[S.selectedShapeIndex].points =
                          SetPoint(@, S.selectedPointIndex, newPoint)]
       ELSE S   \* TypeError before set(...)

\* a finishDraggingPoint that records the entry without comparing the points
finishDraggingPointAlwaysRecords(S) ==
  IF ~S.isDragging \/ S.dragStartPoint = <<>> THEN S
  ELSE IF \/ S.selectedShapeIndex \notin 1..Len(S.shapes)
          \/ S.selectedPointIndex \notin 1..Len(S.shapes[S.selectedShapeIndex].points)
       THEN S
       ELSE LET s1 == StorePush(S, [type |-> "EDIT_SHAPE_POINT",
                                    payload |-> [shapeIndex |-> S.selectedShapeIndex,
                                                 pointIndex |-> S.selectedPointIndex,
                                                 point |-> S.dragStartPoint[1]],
                                    targetId |-> S.shapes[S.selectedShapeIndex].id])
            IN  [s1 EXCEPT !.selectedShapeIndex = 0, !.selectedPointIndex = 0,
                           !.isDragging = FALSE, !.dragStartPoint = <<>>]

finishDraggingPoint(S) ==
  IF ~S.isDragging \/ S.dragStartPoint = <<>> THEN S
  ELSE IF \/ S.selectedShapeIndex \notin 1..Len(S.shapes)
          \/ S.selectedPointIndex \notin 1..Len(S.shapes[S.selectedShapeIndex].points)
       THEN S   \* TypeError before set(...)
       ELSE LET finalPoint == S.shapes[S.selectedShapeIndex].points[S.selectedPointIndex]
                s1 == IF S.dragStartPoint[1] # finalPoint
                      THEN StorePush(S, [type |-> "EDIT_SHAPE_POINT",
                                         payload |-> [shapeIndex |-> S.selectedShapeIndex,
                                                      pointIndex |-> S.selectedPointIndex,
                                                      point |-> S.dragStartPoint[1]],
                                         targetId |-> S.shapes[S.selectedShapeIndex].id])
                      ELSE S
            IN  [s1 EXCEPT !.selectedShapeIndex = 0, !.selectedPointIndex = 0,
                           !.isDragging = FALSE, !.dragStartPoint = <<>>]

StoreClearCanvas(S) ==
  IF Len(S.shapes) = 0 THEN S
  ELSE [StorePush(S, [type |-> "IMPORT_SHAPES", payload |-> [shapes |-> Vals(S.shapes)]])
          EXCEPT !.shapes = <<>>, !.isDrawing = FALSE, !.currentShapePoints = <<>>]

importShapes(S, importedShapes) ==
  LET shapesWithIds == WithIds(importedShapes, S.shapeIdCounter)
      s1 == StorePush(S, [type |-> "DELETE_MULTIPLE_SHAPES",
                          payload |-> [shapeIds |-> Ids(shapesWithIds)]])
  IN  [s1 EXCEPT !.shapes = @ \o Freshs(shapesWithIds),
                 !.shapeIdCounter = @ + Len(importedShapes),
                 !.paletteColors = AddPaletteColors(@, shapesWithIds)]

(* CanvasEngine: input handlers dispatching to the store *)

\* an engine that takes a click near the start point as closing once 2 points
\* are placed
EngineMouseDownClosesAtTwo(S, p) ==
  CASE S.activeTool = "draw" ->
         LET clickedScreenPos == Snap(p)
         IN  IF ~S.isDrawing THEN startDrawing(S, clickedScreenPos)
             ELSE LET isClosing ==
                        /\ DistSq(clickedScreenPos, S.currentShapePoints[1]) < closeToleranceSq
                        /\ Len(S.currentShapePoints) >= 2
                  IN  IF isClosing THEN finishDrawing(S)
                      ELSE addDrawingPoint(S, clickedScreenPos)
    [] S.activeTool = "fill" ->
         LET i == TopmostIndex(S.shapes, LAMBDA s : isPointInPolygon(p, s.points))
         IN  IF i > 0 THEN fillShape(S, S.shapes[i].id, S.currentColor) ELSE S
    [] S.activeTool = "delete" ->
         LET i == TopmostIndex(S.shapes, LAMBDA s : isPointInPolygon(p, s.points))
         IN  IF i > 0 THEN deleteShape(S, S.shapes[i].id) ELSE S
    [] S.activeTool = "edit" ->
         LET hit == FindDragPoint(S.shapes, p)
         IN  IF hit[1] > 0
             THEN startDraggingPoint(S, hit[1], hit[2], S.shapes[hit[1]].points[hit[2]])
             ELSE S

EngineMouseDown(S, p) ==
  CASE S.activeTool = "draw" ->
         LET clickedScreenPos == Snap(p)
         IN  IF ~S.isDrawing THEN startDrawing(S, clickedScreenPos)
             ELSE LET isClosing ==
                        /\ DistSq(clickedScreenPos, S.currentShapePoints[1]) < closeToleranceSq
                        /\ Len(S.currentShapePoints) >= 3
                  IN  IF isClosing THEN finishDrawing(S)
                      ELSE addDrawingPoint(S, clickedScreenPos)
    [] S.activeTool = "fill" ->
         LET i == TopmostIndex(S.shapes, LAMBDA s : isPointInPolygon(p, s.points))
         IN  IF i > 0 THEN fillShape(S, S.shapes[i].id, S.currentColor) ELSE S
    [] S.activeTool = "delete" ->
         LET i == TopmostIndex(S.shapes, LAMBDA s : isPointInPolygon(p, s.points))
         IN  IF i > 0 THEN deleteShape(S, S.shapes[i].id) ELSE S
    [] S.activeTool = "edit" ->
         LET hit == FindDragPoint(S.shapes, p)
         IN  IF hit[1] > 0
             THEN startDraggingPoint(S, hit[1], hit[2], S.shapes[hit[1]].points[hit[2]])
             ELSE S

EngineMouseMove(S, p) ==
  IF S.activeTool = "edit" /\ S.isDragging THEN dragPoint(S, Snap(p)) ELSE S

EngineMouseUp(S) ==
  IF S.activeTool = "edit" /\ S.isDragging THEN finishDraggingPoint(S) ELSE S

EngineMouseOut(S) ==
  IF S.activeTool = "edit" /\ S.isDragging THEN finishDraggingPoint(S) ELSE S

EngineEscape(S) ==
  IF S.isDrawing THEN StoreCancelDrawing(S) ELSE StoreSetActiveTool(S, "draw")

EngineImportFromSVG(S, parsedShapes) ==
  IF Len(parsedShapes) > 0 THEN importShapes(S, parsedShapes) ELSE S

-----------------------------------------------------------------------------
(* History variables                                                        *)
(*   executed    the number of commands recorded so far                     *)
(*   beforeUndo  <<collection before the undo>> right after an undo         *)
(*   dragPre     <<shapes, undoStack, redoStack at the pointer-down>> while  *)
(*               a point is being dragged                                   *)
(*   seqSnaps    the running sequence of commands: snaps[i] is the shape    *)
(*               set before its i-th command; pre is the shape set at the   *)
(*               pointer-down of the drag in progress; unwinding tells that *)
(*               undos have started to unwind the sequence.  The sequence   *)
(*               is forgotten when the collection changes outside of it     *)
(*               (redo, undo or a command in the middle of a drag, a drag   *)
(*               abandoned with its point moved).                           *)

ShapeSet(shs) == {Val(shs[i]) : i \in 1..Len(shs)}

NoSeq == [snaps |-> <<>>, unwinding |-> FALSE, pre |-> <<>>]

IsEditEntry(c) == c.type \in {"EditShapePointCommand", "EDIT_SHAPE_POINT"}

NextSeqSnaps(S1, handler) ==
  LET q == seqSnaps
      restart(base) == [snaps |-> <<base>>, unwinding |-> FALSE, pre |-> <<>>]
      push(base) == IF q.unwinding THEN restart(base)
                    ELSE [snaps |-> Append(q.snaps, base), unwinding |-> FALSE,
                          pre |-> <<>>]
  IN  CASE S1.op = "execute" ->
             IF IsEditEntry(S1.undoStack[Len(S1.undoStack)])
             THEN IF q.pre = <<>> THEN NoSeq ELSE push(q.pre[1])
             ELSE IF isDragging THEN NoSeq ELSE push(ShapeSet(shapes))
        [] S1.op = "undo" ->
             IF isDragging \/ Len(q.snaps) <= 1 THEN NoSeq
             ELSE [snaps |-> SubSeq(q.snaps, 1, Len(q.snaps) - 1),
                   unwinding |-> TRUE, pre |-> <<>>]
        [] S1.op = "redo" -> NoSeq
        [] S1.op \in {"undo_empty", "redo_empty"} -> q
        [] OTHER ->
             IF handler = "load" THEN NoSeq
             ELSE IF handler = "down" /\ S1.isDragging /\ ~isDragging
             THEN [q EXCEPT !.pre = <<ShapeSet(shapes)>>]
             ELSE IF isDragging /\ ~S1.isDragging
                  THEN IF q.pre # <<>> /\ q.pre[1] = ShapeSet(S1.shapes)
                       THEN [q EXCEPT !.pre = <<>>] ELSE NoSeq
                  ELSE q

\* the collection and the stacks as they were when the drag in progress began
NextDragPre(S1) ==
  IF ~S1.isDragging THEN <<>>
  ELSE IF isDragging THEN dragPre
       ELSE <<[shapes |-> shapes, undoStack |-> undoStack, redoStack |-> redoStack]>>

\* a session that imports the swatch file holds its shapes as well, and
\* records one command less
PaletteSession == [fn |-> "swatches"]

HistLimit == IF call = PaletteSession THEN MaxHist - 1 ELSE MaxHist

IdLimit == IF call = PaletteSession THEN MaxId + MaxSwatches ELSE MaxId

ShapeLimit == IF call = PaletteSession THEN MaxShapes + MaxSwatches ELSE MaxShapes

StoreInitialPalette ==
  <<"#000000", "#FF0000", "#00FF00", "#0000FF", "#FFFF00", "#FF00FF", "#00FFFF">>

\* the five fields of the store as create(...) sets them
StoreCreated ==
  [shapes |-> <<>>, paletteColors |-> StoreInitialPalette, shapeIdCounter |-> 0,
   undoStack |-> <<>>, redoStack |-> <<>>]

\* useDrawingStore.subscribe: the five fields are saved when their JSON text
\* has changed
SaveOnChange(S, S1) ==
  IF StoreItem(S1) # StoreItem(S) THEN StoreSaveStateToLocalStorage(S1) ELSE S1

\* one step of the program: the handler's result S1 becomes the state
Step(S1, handler) ==
  /\ executed' = IF S1.op = "execute" THEN executed + 1 ELSE executed
  /\ executed' <= HistLimit
  /\ beforeUndo' = IF S1.op = "undo" THEN <<Vals(shapes)>> ELSE <<>>
  /\ S1.shapeIdCounter <= IdLimit
  /\ Len(S1.shapes) <= ShapeLimit
  /\ Len(S1.currentShapePoints) <= MaxPts
  /\ SetDrawing(DrawingOf(S1))
  /\ activeTool' = S1.activeTool
  /\ currentColor' = S1.currentColor
  /\ isDrawing' = S1.isDrawing
  /\ currentShapePoints' = S1.currentShapePoints
  /\ isDragging' = S1.isDragging
  /\ selectedShapeIndex' = S1.selectedShapeIndex
  /\ selectedPointIndex' = S1.selectedPointIndex
  /\ dragStartPoint' = S1.dragStartPoint
  /\ seqSnaps' = NextSeqSnaps(S1, handler)
  /\ dragPre' = NextDragPre(S1)
  /\ storage' = IF impl = "store"
                THEN SaveOnChange(IF handler = "load" THEN StoreCreated ELSE State, S1).storage
                ELSE S1.storage
  /\ UNCHANGED <<impl, call, quotaExceeded>>

-----------------------------------------------------------------------------
(* Initial state: the constructor of IsometricDrawingTool, or the initial   *)
(* state of the store, with nothing persisted                               *)

Tools == {"draw", "fill", "delete", "edit"}

ClicksFor(tool, points) ==
  CASE tool \in {"fill", "delete"} -> HitClicks
    [] tool = "edit" -> GrabClicks
    [] OTHER -> DrawClicks(points)

\* The sessions explored: toolbar buttons are pressed between gestures, and
\* while a point is being dragged the pointer moves, is released or leaves
\* the canvas and nothing else happens.
GestureInProgress == isDrawing \/ isDragging

\* A session records MaxHist commands; once they are recorded the user only
\* undoes and redoes (pointer-down, tool buttons and colour picks stop).
SessionOpen == executed < HistLimit

\* no geometry helper is being traced
NoCall == [fn |-> "none"]

MemoryInit ==
  /\ impl \in {"script", "store"}
  /\ storage = NoItem
  /\ shapes = <<>>
  /\ paletteColors = IF impl = "store" THEN StoreInitialPalette ELSE <<>>
  /\ shapeIdCounter = 0
  /\ undoStack = <<>>
  /\ redoStack = <<>>
  /\ activeTool = "draw"
  /\ currentColor = Black
  /\ isDrawing = FALSE
  /\ currentShapePoints = <<>>
  /\ isDragging = FALSE
  /\ selectedShapeIndex = 0
  /\ selectedPointIndex = 0
  /\ dragStartPoint = <<>>
  /\ seqSnaps = NoSeq
  /\ executed = 0
  /\ beforeUndo = <<>>
  /\ dragPre = <<>>

ProgramInit == MemoryInit /\ quotaExceeded = FALSE

Init == ProgramInit /\ call = NoCall

(* script.js events *)

ScriptMouseDown ==
  /\ impl = "script"
  /\ ~isDragging /\ SessionOpen
  /\ \E p \in ClicksFor(activeTool, currentShapePoints) : Step(handleMouseDown(State, p), "down")

ScriptMouseMove ==
  /\ impl = "script"
  /\ isDragging /\ activeTool = "edit"
  /\ \E p \in MoveClicks : Step(handleMouseMove(State, p), "move")

ScriptMouseUp ==
  /\ impl = "script"
  /\ isDragging /\ activeTool = "edit"
  /\ Step(handleMouseUp(State), "up")

ScriptMouseOut ==
  /\ impl = "script"
  /\ isDragging /\ activeTool = "edit"
  /\ Step(handleMouseOut(State), "up")

ScriptUndo == impl = "script" /\ ~isDragging /\ Step(ToolUndo(State), "key")

ScriptRedo == impl = "script" /\ ~isDragging /\ Step(ToolRedo(State), "key")

ScriptEscape == impl = "script" /\ ~isDragging /\ Step(ToolEscape(State), "key")

ScriptSetActiveTool ==
  /\ impl = "script"
  /\ ~GestureInProgress /\ SessionOpen
  /\ \E toolName \in Tools : Step(setActiveTool(State, toolName), "button")

ScriptClearCanvas == impl = "script" /\ ~GestureInProgress /\ Step(clearCanvas(State), "button")

ScriptImport ==
  /\ impl = "script"
  /\ ~GestureInProgress
  /\ \E file \in ImportFiles : Step(handleFileImport(State, file), "button")

ScriptPickColor ==
  /\ impl = "script"
  /\ ~GestureInProgress /\ SessionOpen
  /\ \E c \in Colors : Step([State EXCEPT !.currentColor = c], "button")

(* CanvasEngine / Toolbar events *)

StoreMouseDown ==
  /\ impl = "store"
  /\ ~isDragging /\ SessionOpen
  /\ \E p \in ClicksFor(activeTool, currentShapePoints) : Step(EngineMouseDown(State, p), "down")

StoreMouseMove ==
  /\ impl = "store"
  /\ isDragging /\ activeTool = "edit"
  /\ \E p \in MoveClicks : Step(EngineMouseMove(State, p), "move")

StoreMouseUp ==
  /\ impl = "store"
  /\ isDragging /\ activeTool = "edit"
  /\ Step(EngineMouseUp(State), "up")

StoreMouseOut ==
  /\ impl = "store"
  /\ isDragging /\ activeTool = "edit"
  /\ Step(EngineMouseOut(State), "up")

StoreUndoAction == impl = "store" /\ ~isDragging /\ Step(StoreUndo(State), "key")

StoreRedoAction == impl = "store" /\ ~isDragging /\ Step(StoreRedo(State), "key")

StoreEscape == impl = "store" /\ ~isDragging /\ Step(EngineEscape(State), "key")

StoreToolButton ==
  /\ impl = "store"
  /\ ~GestureInProgress /\ SessionOpen
  /\ \E tool \in Tools : Step(StoreSetActiveTool(State, tool), "button")

StoreClearButton == impl = "store" /\ ~GestureInProgress /\ Step(StoreClearCanvas(State), "button")

StoreImport ==
  /\ impl = "store"
  /\ ~GestureInProgress
  /\ \E file \in ImportFiles : Step(EngineImportFromSVG(State, file), "button")

StorePickColor ==
  /\ impl = "store"
  /\ ~GestureInProgress /\ SessionOpen
  /\ \E c \in Colors : Step([State EXCEPT !.currentColor = c], "button")

Next ==
  \/ ScriptMouseDown \/ ScriptMouseMove \/ ScriptMouseUp \/ ScriptMouseOut
  \/ ScriptUndo \/ ScriptRedo \/ ScriptEscape \/ ScriptSetActiveTool
  \/ ScriptClearCanvas \/ ScriptImport \/ ScriptPickColor
  \/ StoreMouseDown \/ StoreMouseMove \/ StoreMouseUp \/ StoreMouseOut
  \/ StoreUndoAction \/ StoreRedoAction \/ StoreEscape \/ StoreToolButton
  \/ StoreClearButton \/ StoreImport \/ StorePickColor

Spec == Init /\ [][Next]_vars

-----------------------------------------------------------------------------
(* Sessions about gestures: Escape, the tool buttons and the pointer leaving *)
(* the canvas arrive at any moment, also in the middle of a drawing or of a  *)
(* drag; nothing is undone or redone.                                        *)

ScriptEscapeAnytime == impl = "script" /\ SessionOpen /\ Step(ToolEscape(State), "key")

ScriptToolAnytime ==
  /\ impl = "script"
  /\ SessionOpen
  /\ \E toolName \in Tools : Step(setActiveTool(State, toolName), "button")

ScriptMouseOutAnytime == impl = "script" /\ SessionOpen /\ Step(handleMouseOut(State), "up")

StoreEscapeAnytime == impl = "store" /\ SessionOpen /\ Step(EngineEscape(State), "key")

StoreToolAnytime ==
  /\ impl = "store"
  /\ SessionOpen
  /\ \E tool \in Tools : Step(StoreSetActiveTool(State, tool), "button")

StoreMouseOutAnytime == impl = "store" /\ SessionOpen /\ Step(EngineMouseOut(State), "up")

GestureNext ==
  \/ ScriptMouseDown \/ ScriptMouseMove \/ ScriptMouseUp \/ ScriptMouseOutAnytime
  \/ ScriptEscapeAnytime \/ ScriptToolAnytime
  \/ ScriptClearCanvas \/ ScriptImport \/ ScriptPickColor
  \/ StoreMouseDown \/ StoreMouseMove \/ StoreMouseUp \/ StoreMouseOutAnytime
  \/ StoreEscapeAnytime \/ StoreToolAnytime
  \/ StoreClearButton \/ StoreImport \/ StorePickColor

GestureSpec == Init /\ [][GestureNext]_vars

-----------------------------------------------------------------------------
(* Sessions about the draw tool: the user clicks along the outline and, at   *)
(* any moment of a drawing, back on its first point; Escape cancels.         *)

\* a click back on the first point of the drawing in progress, or one pixel
\* beside it, however many points are placed
StartClicks(points) ==
  IF points = <<>> THEN {} ELSE {points[1], Pt(points[1].x + 1, points[1].y)}

ScriptMouseDownOnStart ==
  /\ impl = "script"
  /\ isDrawing /\ activeTool = "draw" /\ SessionOpen
  /\ \E p \in StartClicks(currentShapePoints) : Step(handleMouseDown(State, p), "down")

StoreMouseDownOnStart ==
  /\ impl = "store"
  /\ isDrawing /\ activeTool = "draw" /\ SessionOpen
  /\ \E p \in StartClicks(currentShapePoints) : Step(EngineMouseDown(State, p), "down")

DrawNext ==
  \/ ScriptMouseDown \/ ScriptMouseDownOnStart \/ ScriptEscapeAnytime \/ ScriptPickColor
  \/ StoreMouseDown \/ StoreMouseDownOnStart \/ StoreEscapeAnytime \/ StorePickColor

DrawSpec == Init /\ [][DrawNext]_vars

-----------------------------------------------------------------------------
(* Properties of the command history                                        *)

\* steps of the undo and redo handlers
UndoStep == ScriptUndo \/ StoreUndoAction
RedoStep == ScriptRedo \/ StoreRedoAction

\* an undo that inverts a command: the stack is not empty, and script.js is
\* not in the middle of a drawing (its undo then only cancels the drawing)
UndoInverts == undoStack # <<>> /\ ~(impl = "script" /\ isDrawing) /\ UndoStep

\* a redo that re-applies a command
RedoApplies == redoStack # <<>> /\ RedoStep

\* C1: after a sequence of N commands, N undos leave the shape collection,
\* as a set of (id, points, color), equal to the one before the sequence:
\* every undo that unwinds the running sequence restores the set recorded
\* before the command it inverts.
C1_UndoRestoresSequence ==
  [][UndoInverts /\ seqSnaps.snaps # <<>>
       => ShapeSet(shapes') = seqSnaps.snaps[Len(seqSnaps.snaps)]]_vars

\* C2: an undo with a non-empty undoStack immediately followed by a redo
\* leaves the shape collection (ids, point lists, colours) as it was just
\* before the undo.
C2_RedoAfterUndoRestores ==
  [][RedoStep /\ beforeUndo # <<>> => Vals(shapes') = beforeUndo[1]]_vars

\* C3: in every reachable state no two shapes of the collection have the
\* same id.
C3_UniqueIds ==
  \A i, j \in 1..Len(shapes) : i # j => shapes[i].id # shapes[j].id

\* a step that records a new command
ExecuteStep == executed' = executed + 1

Front(stack) == SubSeq(stack, 1, Len(stack) - 1)

\* the same commands stand at the same positions of two stacks (the entries
\* of the store are plain data and are compared in full)
SameCommands(s1, s2) ==
  /\ Len(s1) = Len(s2)
  /\ \A i \in 1..Len(s1) :
       /\ s1[i].type = s2[i].type
       /\ impl = "store" => s1[i] = s2[i]

\* the ids of the shapes a command is about
Subject(c) ==
  CASE c.type = "AddShapeCommand" -> {c.shapeData.id}
    [] c.type = "DeleteShapeCommand" -> {c.deletedShape.id}
    [] c.type \in {"FillShapeCommand", "EditShapePointCommand"} -> {c.targetId}
    [] c.type = "ClearAllCommand" -> Range(Ids(c.originalShapes))
    [] c.type = "ImportShapesCommand" -> Range(Ids(c.shapesToAdd))
    [] c.type \in {"DELETE_SHAPE", "FILL_SHAPE"} -> {c.payload.shapeId}
    [] c.type = "ADD_SHAPE" -> {c.payload.shape.id}
    [] c.type = "EDIT_SHAPE_POINT" -> {c.targetId}
    [] c.type = "IMPORT_SHAPES" -> Range(Ids(c.payload.shapes))
    [] c.type = "DELETE_MULTIPLE_SHAPES" -> Range(c.payload.shapeIds)

\* C4: a new command leaves redoStack empty and stands on top of undoStack,
\* above the commands that were there; a redo removes the top entry of
\* redoStack and leaves the rest of redoStack in place.
C4_ExecuteClearsRedo ==
  [][/\ ExecuteStep => /\ redoStack' = <<>>
                       /\ undoStack' # <<>>
                       /\ SameCommands(Front(undoStack'), undoStack)
     /\ RedoApplies => SameCommands(redoStack', Front(redoStack))]_vars

\* a state in which a command has been recorded after an undo: fewer
\* commands stand on the stacks than were recorded
C4_Witness ==
  /\ executed >= 2 /\ redoStack = <<>>
  /\ undoStack # <<>> /\ Len(undoStack) < executed

\* the undo and redo handlers of the running implementation
UndoOf(S) == IF impl = "script" THEN ToolUndo(S) ELSE StoreUndo(S)
RedoOf(S) == IF impl = "script" THEN ToolRedo(S) ELSE StoreRedo(S)

\* one shape has been drawn and then filled, and nothing else was recorded
DrawnAndFilled ==
  /\ executed = 2 /\ Len(undoStack) = 2 /\ redoStack = <<>>
  /\ undoStack[1].type \in {"AddShapeCommand", "DELETE_SHAPE"}
  /\ undoStack[2].type \in {"FillShapeCommand", "FILL_SHAPE"}
  /\ ~GestureInProgress

\* C5: undo with an empty undoStack and redo with an empty redoStack change
\* neither the shapes, the palette, shapeIdCounter nor the stacks; after a
\* shape is drawn and filled, the third consecutive undo changes nothing and
\* two redos then restore the filled shape.
C5_EmptyStackNoOp ==
  /\ [][(undoStack = <<>> /\ UndoStep) \/ (redoStack = <<>> /\ RedoStep)
          => UNCHANGED drawingVars]_vars
  /\ [](DrawnAndFilled =>
          LET u2 == UndoOf(UndoOf(State))
              u3 == UndoOf(u2)
              r2 == RedoOf(RedoOf(u3))
          IN  /\ u2.undoStack = <<>> /\ u2.shapes = <<>>
              /\ DrawingOf(u3) = DrawingOf(u2)
              /\ Vals(r2.shapes) = Vals(shapes)
              /\ r2.redoStack = <<>>)

\* a drawn and filled shape has been undone completely: a further undo
\* finds undoStack empty
C5_Witness ==
  /\ executed = 2 /\ undoStack = <<>> /\ Len(redoStack) = 2
  /\ redoStack[1].type \in {"FillShapeCommand", "FILL_SHAPE"}
  /\ redoStack[2].type \in {"AddShapeCommand", "ADD_SHAPE"}
  /\ shapes = <<>>

\* C6: a successful undo removes the top entry of undoStack and pushes one
\* entry for the same command onto redoStack, a successful redo does the
\* reverse; |undoStack| + |redoStack| is changed by no step but the
\* recording of a new command.
C6_UndoRedoMoveOneEntry ==
  [][/\ UndoInverts =>
          /\ SameCommands(undoStack', Front(undoStack))
          /\ redoStack' # <<>>
          /\ SameCommands(Front(redoStack'), redoStack)
          /\ Subject(redoStack'[Len(redoStack')]) = Subject(undoStack[Len(undoStack)])
          /\ impl = "script" =>
                redoStack'[Len(redoStack')].type = undoStack[Len(undoStack)].type
     /\ RedoApplies =>
          /\ SameCommands(redoStack', Front(redoStack))
          /\ undoStack' # <<>>
          /\ SameCommands(Front(undoStack'), undoStack)
          /\ Subject(undoStack'[Len(undoStack')]) = Subject(redoStack[Len(redoStack)])
          /\ impl = "script" =>
                undoStack'[Len(undoStack')].type = redoStack[Len(redoStack)].type
     /\ Len(undoStack') + Len(redoStack') # Len(undoStack) + Len(redoStack)
          => ExecuteStep]_vars

\* commands are spread over both stacks: undos and redos have moved them
C6_Witness ==
  /\ Len(undoStack) >= 1 /\ Len(redoStack) >= 2
  /\ Len(undoStack) + Len(redoStack) = executed

\* pointer events that write to a shape of the collection
FillClick == (ScriptMouseDown \/ StoreMouseDown) /\ activeTool = "fill"
DragMove == ScriptMouseMove \/ StoreMouseMove
DragEnd == ScriptMouseUp \/ ScriptMouseOut \/ StoreMouseUp \/ StoreMouseOut

\* C7: no command on either stack shares shape or point data with the live
\* collection: a fill, a live drag or a point edit never changes the payload
\* of a command that is already on undoStack or redoStack.
C7_PayloadsNotShared ==
  [][FillClick \/ DragMove \/ DragEnd =>
       /\ Len(undoStack') >= Len(undoStack)
       /\ SubSeq(undoStack', 1, Len(undoStack)) = undoStack
       /\ redoStack' = redoStack \/ redoStack' = <<>>]_vars

Top(stack) == stack[Len(stack)]

\* the shapes of the collection other than those with the given ids
Others(shs, ids) == Vals(FilterOutIds(shs, ids))

\* what undoing (redoing) the fill, edit or delete c leaves of its target in
\* the collection shs
TargetUndone(c, shs) ==
  LET i == IndexOfId(shs, CHOOSE id \in Subject(c) : TRUE)
  IN  CASE c.type = "FillShapeCommand" -> i > 0 /\ shs[i].color = c.oldColor
        [] c.type = "FILL_SHAPE" -> i > 0 /\ shs[i].color = c.payload.color
        [] c.type = "EditShapePointCommand" ->
             i > 0 /\ shs[i].points[c.pointIndex] = c.oldPoint
        [] c.type = "EDIT_SHAPE_POINT" ->
             i > 0 /\ shs[i].points[c.payload.pointIndex] = c.payload.point
        [] c.type \in {"DeleteShapeCommand", "ADD_SHAPE"} -> i > 0

TargetRedone(c, shs) ==
  LET i == IndexOfId(shs, CHOOSE id \in Subject(c) : TRUE)
  IN  CASE c.type = "FillShapeCommand" -> i > 0 /\ shs[i].color = c.newColor
        [] c.type = "FILL_SHAPE" -> i > 0 /\ shs[i].color = c.payload.color
        [] c.type = "EditShapePointCommand" ->
             i > 0 /\ shs[i].points[c.pointIndex] = c.newPoint
        [] c.type = "EDIT_SHAPE_POINT" ->
             i > 0 /\ shs[i].points[c.payload.pointIndex] = c.payload.point
        [] c.type \in {"DeleteShapeCommand", "DELETE_SHAPE"} -> i = 0

\* C8: the undo or redo of a fill, an edit-point or a delete changes the
\* shape whose id the command targeted when it was created, and no other
\* shape of the collection.
C8_UndoRedoHitTarget ==
  [][/\ undoStack # <<>>
          /\ Top(undoStack).type \in {"FillShapeCommand", "EditShapePointCommand",
                  "DeleteShapeCommand", "FILL_SHAPE", "EDIT_SHAPE_POINT", "ADD_SHAPE"}
          /\ UndoInverts
          => /\ Others(shapes', Subject(Top(undoStack)))
                  = Others(shapes, Subject(Top(undoStack)))
             /\ TargetUndone(Top(undoStack), shapes')
     /\ redoStack # <<>>
          /\ Top(redoStack).type \in {"FillShapeCommand", "EditShapePointCommand",
                  "DeleteShapeCommand", "FILL_SHAPE", "EDIT_SHAPE_POINT", "DELETE_SHAPE"}
          /\ RedoApplies
          => /\ Others(shapes', Subject(Top(redoStack)))
                  = Others(shapes, Subject(Top(redoStack)))
             /\ TargetRedone(Top(redoStack), shapes')]_vars

\* every shape id present in the collection or in a command on either stack
AllIds ==
  Range(Ids(shapes))
    \cup UNION {Subject(undoStack[i]) : i \in 1..Len(undoStack)}
    \cup UNION {Subject(redoStack[i]) : i \in 1..Len(redoStack)}

\* the new command on top of undoStack creates shapes (a drawing or an import)
CreatesShapes(c) ==
  c.type \in {"AddShapeCommand", "ImportShapesCommand",
              "DELETE_SHAPE", "DELETE_MULTIPLE_SHAPES"}

\* C9: shapeIdCounter never decreases, every id in the collection or in a
\* command on either stack is at most shapeIdCounter, and every shape that
\* is created or imported gets an id above every id issued before (AllIds is
\* a function of drawingVars: a step that leaves them alone adds no id).
C9_IdsMonotone ==
  /\ [](\A id \in AllIds : id >= 1 /\ id <= shapeIdCounter)
  /\ [][/\ shapeIdCounter' >= shapeIdCounter
         /\ (UNCHANGED drawingVars \/ \A id \in AllIds' \ AllIds : id > shapeIdCounter)
         /\ (ExecuteStep /\ CreatesShapes(Top(undoStack')) =>
               \A newId \in Subject(Top(undoStack')) : newId > shapeIdCounter)]_vars

\* a shape has been deleted and a shape drawn afterwards has a later id
C9_Witness ==
  /\ Len(undoStack) = 3
  /\ undoStack[2].type \in {"DeleteShapeCommand", "ADD_SHAPE"}
  /\ undoStack[3].type \in {"AddShapeCommand", "DELETE_SHAPE"}
  /\ Subject(undoStack[2]) = {1}
  /\ Range(Ids(shapes)) = {2}

IsImport(c) == c.type \in {"ImportShapesCommand", "DELETE_MULTIPLE_SHAPES"}
IsClear(c) == c.type \in {"ClearAllCommand", "IMPORT_SHAPES"}

\* all of the batch or none of it is in the collection
AllOrNone(ids, shs) ==
  ids \subseteq Range(Ids(shs)) \/ ids \cap Range(Ids(shs)) = {}

\* the shapes a clear-all holds for its undo
ClearedShapes(c) ==
  IF c.type = "ClearAllCommand" THEN c.originalShapes ELSE c.payload.shapes

FillTarget(p) ==
  TopmostIndex(shapes, LAMBDA s : Len(s.points) > 2 /\ isPointInPolygon(p, s.points))

\* every fill click offered asks for the colour its target already has
FillIsNoOp ==
  \A p \in HitClicks : FillTarget(p) > 0 /\ shapes[FillTarget(p)].color = currentColor

\* C11: a fill request whose colour equals the current colour of the target
\* shape records no command: shapes, undoStack and redoStack are unchanged
\* (a non-empty redoStack is kept) and no lower shape is filled instead.
C11_SameColorFillNoOp ==
  [][activeTool = "fill" /\ FillIsNoOp /\ FillClick =>
       UNCHANGED <<shapes, undoStack, redoStack>>]_vars

\* the point being dragged, as the collection holds it now
DraggedPoint == shapes[selectedShapeIndex].points[selectedPointIndex]

\* the drag in progress has left its point where the pointer-down found it
DragUnmoved == DraggedPoint = dragStartPoint[1]

EscapeKey == ScriptEscapeAnytime \/ StoreEscapeAnytime
ToolSwitch == ScriptToolAnytime \/ StoreToolAnytime

\* C13: when a drag in progress is abandoned by Escape or by a tool button,
\* the dragged point is back at the position captured at pointer-down when
\* the gesture returns to Idle: the shape collection equals the one before
\* the drag and both stacks are untouched.
C13_AbandonedDragRestored ==
  [][isDragging /\ (EscapeKey \/ ToolSwitch) =>
       /\ ~isDragging'
       /\ shapes' = dragPre[1].shapes
       /\ undoStack' = dragPre[1].undoStack
       /\ redoStack' = dragPre[1].redoStack]_vars

\* the handlers of the running implementation for the events that cancel
EscapeOf(S) == IF impl = "script" THEN ToolEscape(S) ELSE EngineEscape(S)
MouseOutOf(S) == IF impl = "script" THEN handleMouseOut(S) ELSE EngineMouseOut(S)
ToolOf(S, t) == IF impl = "script" THEN setActiveTool(S, t) ELSE StoreSetActiveTool(S, t)

\* the handler result S1 has discarded the drawing in progress and has left
\* the collection and the stacks as they are
DrawingDiscarded(S1) ==
  /\ ~S1.isDrawing /\ S1.currentShapePoints = <<>>
  /\ ~S1.isDragging
  /\ S1.op = "none"
  /\ S1.shapes = shapes /\ S1.undoStack = undoStack /\ S1.redoStack = redoStack

\* C14: while a drawing is in progress, each of Escape, the pointer leaving
\* the canvas, and a switch to another tool returns the gesture to Idle with
\* the points placed so far discarded, records no command and leaves the
\* shape collection and both stacks unchanged.
C14_DrawingCancelled ==
  isDrawing =>
    /\ DrawingDiscarded(EscapeOf(State))
    /\ DrawingDiscarded(MouseOutOf(State))
    /\ \A t \in Tools \ {activeTool} : DrawingDiscarded(ToolOf(State, t))

\* pointer-down on the canvas, in the sessions about the draw tool
DrawClick ==
  \/ ScriptMouseDown \/ ScriptMouseDownOnStart
  \/ StoreMouseDown \/ StoreMouseDownOnStart

\* C15: a draw-mode click never closes the shape being drawn while fewer than
\* 3 points are placed, however close it is to the start point: the click
\* adds no shape and records no command, and the drawing goes on.
C15_NoCloseBelowThreePoints ==
  [][isDrawing /\ activeTool = "draw" /\ Len(currentShapePoints) < 3 /\ DrawClick =>
       /\ shapes' = shapes
       /\ undoStack' = undoStack /\ redoStack' = redoStack
       /\ ~ExecuteStep
       /\ isDrawing']_vars

\* with 2 points placed a click on the start point was taken as a third point
C15_Witness ==
  /\ isDrawing /\ Len(currentShapePoints) = 3
  /\ currentShapePoints[3] = currentShapePoints[1]

\* C16: no shape added by completing a drawing has a point list whose last
\* point equals its first point (in these sessions every shape of the
\* collection was added by completing a drawing).
C16_NoDuplicatedClosingPoint ==
  \A i \in 1..Len(shapes) :
    shapes[i].points[Len(shapes[i].points)] # shapes[i].points[1]

-----------------------------------------------------------------------------
(* Hit-test sessions: imports that include a 2-point polyline, and fill and *)
(* delete clicks inside a polygon, on the polyline and on empty canvas.     *)

Polyline == <<G00, Pt(0, 6)>>        \* grid (0,0) to grid (1,1), through Inner
OnLine == Pt(0, 4)                   \* on the polyline, outside the triangle
Outside == Pt(9, 9)                  \* on no shape
PolylineFile == << [points |-> Polyline, color |-> Black] >>
HitProbeClicks == HitClicks \cup {OnLine, Outside}

ScriptImportPolyline ==
  /\ impl = "script"
  /\ ~GestureInProgress
  /\ Step(handleFileImport(State, PolylineFile), "button")

StoreImportPolyline ==
  /\ impl = "store"
  /\ ~GestureInProgress
  /\ Step(EngineImportFromSVG(State, PolylineFile), "button")

ScriptHitProbe ==
  /\ impl = "script"
  /\ activeTool \in {"fill", "delete"} /\ SessionOpen
  /\ \E p \in HitProbeClicks : Step(handleMouseDown(State, p), "down")

StoreHitProbe ==
  /\ impl = "store"
  /\ activeTool \in {"fill", "delete"} /\ SessionOpen
  /\ \E p \in HitProbeClicks : Step(EngineMouseDown(State, p), "down")

HitNext ==
  \/ ScriptMouseDown \/ ScriptHitProbe \/ ScriptSetActiveTool
  \/ ScriptImport \/ ScriptImportPolyline \/ ScriptPickColor
  \/ StoreMouseDown \/ StoreHitProbe \/ StoreToolButton
  \/ StoreImport \/ StoreImportPolyline \/ StorePickColor

HitSpec == Init /\ [][HitNext]_vars

\* pointer-down at p in fill or delete mode
HitClickAt(p) ==
  /\ activeTool \in {"fill", "delete"}
  /\ ~isDragging
  /\ \/ impl = "script" /\ Step(handleMouseDown(State, p), "down")
     \/ impl = "store" /\ Step(EngineMouseDown(State, p), "down")

\* what a fill or delete click on the shape at index t (0: on no shape)
\* leaves in the collection when it acts on that shape and on no other
ActsOnOnly(t) ==
  IF t = 0 THEN shapes' = shapes /\ ~ExecuteStep
  ELSE IF activeTool = "delete"
       THEN Vals(shapes') = Vals(RemoveAt(shapes, t))
       ELSE Vals(shapes') = [Vals(shapes) EXCEPT ![t].color = currentColor]

\* C17: a fill or delete click at p acts on exactly one shape, the latest in
\* insertion order among the shapes with more than 2 points whose polygon
\* contains p; it acts on no shape when there is none, leaves every other
\* shape unchanged, and never selects a 2-point polyline.
C17_HitTopmostPolygon ==
  [][\A p \in HitProbeClicks : HitClickAt(p) => ActsOnOnly(FillTarget(p))]_vars

-----------------------------------------------------------------------------------------------------------------------------------------------------
(* Calls of isPointInPolygon on their own.  The polygon is drawn in the     *)
(* initial state; a call passes it with a point and leaves in the call      *)
(* frame the result, the iterations i of the loop that toggled inside and   *)
(* the iterations for which the division was evaluated.  The helper is the  *)
(* same expression in script.js and in CanvasEngine, so the calls are       *)
(* traced in one of them.                                                   *)

\* twice the signed area of the triangle a b c
Cross(a, b, c) == (b.x - a.x) * (c.y - a.y) - (b.y - a.y) * (c.x - a.x)

\* a convex polygon with at least 3 non-collinear vertices, in either
\* orientation: every vertex lies on the same side of every edge
Convex(polygon) ==
  LET n == Len(polygon)
      After(i) == IF i = n THEN 1 ELSE i + 1
      sides == {Cross(polygon[i], polygon[After(i)], polygon[k]) : i, k \in 1..n}
  IN  /\ n >= 3
      /\ (\A c \in sides : c >= 0) \/ (\A c \in sides : c <= 0)
      /\ \E c \in sides : c # 0

Lattice == {Pt(a, b) : a, b \in 0..MaxCoord}
ProbePoints == {Pt(a, b) : a, b \in (0 - 1)..(MaxCoord + 1)}

\* point lists passed as polygon: every list of 2 or 3 lattice points
\* (polylines, degenerate and proper triangles) and every convex polygon of
\* up to MaxVertices lattice points, in every order and from every start
Polygons ==
  {polygon \in UNION {[1..n -> Lattice] : n \in 2..MaxVertices} :
     Len(polygon) <= 3 \/ Convex(polygon)}

SumX(polygon) == LET f[i \in 0..Len(polygon)] == IF i = 0 THEN 0 ELSE f[i - 1] + polygon[i].x
                 IN  f[Len(polygon)]
SumY(polygon) == LET f[i \in 0..Len(polygon)] == IF i = 0 THEN 0 ELSE f[i - 1] + polygon[i].y
                 IN  f[Len(polygon)]

\* the polygon enlarged k times about the origin
Scale(polygon, k) == [i \in 1..Len(polygon) |-> Pt(k * polygon[i].x, k * polygon[i].y)]

\* arguments of a call on a polygon: the polygon with a point of the lattice
\* around it, or the polygon with the mean of its vertices (the polygon is
\* enlarged Len times so that the mean has integer coordinates)
CastInputs(polygon) ==
  {[polygon |-> polygon, point |-> p] : p \in ProbePoints}
    \cup {[polygon |-> Scale(polygon, Len(polygon)),
            point |-> Pt(SumX(polygon), SumY(polygon))]}

PrevVertex(polygon, i) == IF i = 1 THEN Len(polygon) ELSE i - 1

\* the iterations i of the loop in which inside is toggled
Toggling(p, polygon) ==
  {i \in 1..Len(polygon) : EdgeIntersects(p, polygon[i], polygon[PrevVertex(polygon, i)])}

\* the iterations i of the loop in which the division by (yj - yi) is evaluated
Dividing(p, polygon) ==
  {i \in 1..Len(polygon) : Straddles(p, polygon[i], polygon[PrevVertex(polygon, i)])}

CastInit ==
  /\ ProgramInit /\ impl = "script"
  /\ \E polygon \in Polygons :
       call = [fn |-> "isPointInPolygon", polygon |-> polygon, point |-> Pt(0, 0),
               returned |-> FALSE, inside |-> FALSE, toggled |-> {}, divided |-> {}]

CallIsPointInPolygon ==
  /\ call.fn = "isPointInPolygon" /\ ~call.returned
  /\ \E in \in CastInputs(call.polygon) :
       call' = [fn |-> "isPointInPolygon", polygon |-> in.polygon, point |-> in.point,
                returned |-> TRUE,
                inside |-> isPointInPolygon(in.point, in.polygon),
                toggled |-> Toggling(in.point, in.polygon),
                divided |-> Dividing(in.point, in.polygon)]
  /\ UNCHANGED <<impl, drawingVars, gestureVars, historyVars, storage, quotaExceeded>>

CastNext == CallIsPointInPolygon

CastSpec == CastInit /\ [][CastNext]_vars

NegativelyOriented(polygon) ==
  \E i, k \in 1..Len(polygon) :
     Cross(polygon[i], polygon[IF i = Len(polygon) THEN 1 ELSE i + 1], polygon[k]) < 0

IsCentroid(p, polygon) ==
  /\ Len(polygon) * p.x = SumX(polygon)
  /\ Len(polygon) * p.y = SumY(polygon)

OutsideBox(p, polygon) ==
  \/ \A i \in 1..Len(polygon) : p.x < polygon[i].x
  \/ \A i \in 1..Len(polygon) : p.x > polygon[i].x
  \/ \A i \in 1..Len(polygon) : p.y < polygon[i].y
  \/ \A i \in 1..Len(polygon) : p.y > polygon[i].y

Returned == call.fn = "isPointInPolygon" /\ call.returned

HorizontalEdges(polygon) ==
  {i \in 1..Len(polygon) : polygon[i].y = polygon[PrevVertex(polygon, i)].y}

\* C19: for every point and every polygon, an edge whose two endpoints have
\* the same y coordinate never toggles containment and the division by
\* (yj - yi) is never evaluated for it, also when the tested point lies
\* exactly on that horizontal edge.
C19_HorizontalEdgeIgnored ==
  Returned =>
    \A i \in HorizontalEdges(call.polygon) : i \notin call.toggled /\ i \notin call.divided

\* a point strictly between the ends of a horizontal edge of a triangle has
\* been tested
C19_Witness ==
  /\ Returned /\ Convex(call.polygon)
  /\ \E i \in HorizontalEdges(call.polygon) :
       LET a == call.polygon[i]
           b == call.polygon[PrevVertex(call.polygon, i)]
       IN  /\ call.point.y = a.y
           /\ (a.x < call.point.x /\ call.point.x < b.x) \/ (b.x < call.point.x /\ call.point.x < a.x)

-----------------------------------------------------------------------------
(* Calls of gridToScreen and screenToNearestGridPoint on their own: a grid  *)
(* intersection or a pointer position is drawn in the initial state and     *)
(* the two conversions are applied to it in turn; chain holds the argument  *)
(* and every result so far.  Both files hold the same two helpers, so the   *)
(* calls are traced in one of them.                                         *)

GridInputs == {[kind |-> "grid", at |-> Pt(gx, gy)] : gx, gy \in (0 - MaxGrid)..MaxGrid}
ScreenInputs ==
  {[kind |-> "screen", at |-> Pt(a, b)] : a, b \in (0 - MaxScreen)..MaxScreen}

SnapInit ==
  /\ ProgramInit /\ impl = "script"
  /\ \E in \in GridInputs \cup ScreenInputs : call = [fn |-> "convert", chain |-> <<in>>]

CallGridToScreen ==
  /\ call.fn = "convert" /\ Len(call.chain) <= MaxCalls
  /\ Top(call.chain).kind = "grid"
  /\ call' = [call EXCEPT !.chain =
                 Append(@, [kind |-> "screen", at |-> gridToScreen(Top(@).at)])]
  /\ UNCHANGED <<impl, drawingVars, gestureVars, historyVars, storage, quotaExceeded>>

CallScreenToNearestGridPoint ==
  /\ call.fn = "convert" /\ Len(call.chain) <= MaxCalls
  /\ Top(call.chain).kind = "screen"
  /\ call' = [call EXCEPT !.chain =
                 Append(@, [kind |-> "grid", at |-> screenToNearestGridPoint(Top(@).at)])]
  /\ UNCHANGED <<impl, drawingVars, gestureVars, historyVars, storage, quotaExceeded>>

SnapNext == CallGridToScreen \/ CallScreenToNearestGridPoint

SnapSpec == SnapInit /\ [][SnapNext]_vars

\* C20: for all integer grid coordinates (gx, gy), screenToNearestGridPoint
\* applied to the result of gridToScreen(gx, gy) returns (gx, gy);
\* consequently snapping (gridToScreen after screenToNearestGridPoint) is
\* idempotent: snapping a snapped position returns it.
C20_GridRoundTrip ==
  call.fn = "convert" =>
    \A k \in 1..(Len(call.chain) - 2) :
       (call.chain[k].kind = "grid" \/ k > 1) => call.chain[k + 2].at = call.chain[k].at

\* both cases have run from a pointer position that is not itself a grid
\* intersection: its snapped position went to the grid and back, and was
\* snapped a second time
C20_Witness ==
  /\ call.fn = "convert" /\ Len(call.chain) = 5
  /\ call.chain[1].kind = "screen"
  /\ call.chain[3].at # call.chain[1].at
  /\ call.chain[2].at.x < 0 /\ call.chain[2].at.y > 0
  /\ call.chain[4].at = call.chain[2].at
  /\ call.chain[5].at = call.chain[3].at

-----------------------------------------------------------------------------
(* SVG sessions: the user draws, edits and clears, imports documents        *)
(* (well-formed and malformed), exports the drawing and imports the         *)
(* downloaded file.  call holds the downloaded document together with the   *)
(* shapes it was made from.                                                 *)

Element(tag, inGroup, hasPoints, points, fill, stroke) ==
  [tag |-> tag, inGroup |-> inGroup, hasPoints |-> hasPoints, points |-> points,
   fill |-> fill, stroke |-> stroke]

JunkPair == [xStr |-> JunkText, yStr |-> JunkText]
HalfPair == [xStr |-> NumberText(3), yStr |-> JunkText]     \* "3" with no comma

\* three positions off the grid, snapping to grid (0,0), (1,0) and (0,1)
OffGrid == <<Pt(1, 0), Pt(4, 2), Pt(-2, 4)>>
OffGridPairs == [i \in 1..3 |-> PairText(OffGrid[i])]

\* one <polygon points="..."> with 3 valid points and no fill or stroke
DocOnePolygon ==
  [group |-> FALSE,
   elements |-> <<Element("polygon", FALSE, TRUE, OffGridPairs, "", "")>>]

\* nothing survives: no points attribute, one valid pair among junk, an
\* element that is no shape
DocNothing ==
  [group |-> FALSE,
   elements |-> <<Element("polygon", FALSE, FALSE, <<>>, Red, Red),
                  Element("polyline", FALSE, TRUE, <<JunkPair, OffGridPairs[1], HalfPair>>, "", Red),
                  Element("rect", FALSE, TRUE, OffGridPairs, Red, Red)>>]

\* one shape survives: the invalid pairs of the second element are skipped
DocMixed ==
  [group |-> FALSE,
   elements |-> <<Element("polyline", FALSE, TRUE, <<HalfPair>>, Red, ""),
                  Element("polygon", FALSE, TRUE,
                          <<OffGridPairs[1], JunkPair, OffGridPairs[2], HalfPair, OffGridPairs[3]>>,
                          "", Red)>>]

\* a group with id "shapes" that holds no valid shape, and a polygon outside it
DocGrouped ==
  [group |-> TRUE,
   elements |-> <<Element("polygon", FALSE, TRUE, OffGridPairs, Red, ""),
                  Element("polyline", TRUE, TRUE, <<JunkPair>>, Red, "")>>]

SvgDocuments == {DocOnePolygon, DocNothing, DocMixed, DocGrouped}

ScriptImportDocument ==
  /\ impl = "script"
  /\ ~GestureInProgress
  /\ \E svgDoc \in SvgDocuments :
       Step(handleFileImport(State, parseSVGContent(svgDoc)), "button")

StoreImportDocument ==
  /\ impl = "store"
  /\ ~GestureInProgress
  /\ \E svgDoc \in SvgDocuments :
       Step(EngineImportFromSVG(State, EngineParseSVGContent(svgDoc)), "button")

ScriptExport ==
  /\ impl = "script"
  /\ call = NoCall /\ ~GestureInProgress
  /\ call' = [fn |-> "exportSVG", svg |-> exportSVG(Vals(shapes)), shapes |-> Vals(shapes)]
  /\ UNCHANGED <<impl, drawingVars, gestureVars, historyVars, storage, quotaExceeded>>

StoreExport ==
  /\ impl = "store"
  /\ call = NoCall /\ ~GestureInProgress
  /\ call' = [fn |-> "exportSVG", svg |-> exportToSVG(Vals(shapes)), shapes |-> Vals(shapes)]
  /\ UNCHANGED <<impl, drawingVars, gestureVars, historyVars, storage, quotaExceeded>>

ScriptImportDownloaded ==
  /\ impl = "script"
  /\ call.fn = "exportSVG" /\ ~GestureInProgress
  /\ Step(handleFileImport(State, parseSVGContent(call.svg)), "button")

StoreImportDownloaded ==
  /\ impl = "store"
  /\ call.fn = "exportSVG" /\ ~GestureInProgress
  /\ Step(EngineImportFromSVG(State, EngineParseSVGContent(call.svg)), "button")

SvgNext ==
  \/ ScriptMouseDown \/ ScriptMouseMove \/ ScriptMouseUp \/ ScriptSetActiveTool
  \/ ScriptClearCanvas \/ ScriptImportDocument \/ ScriptImportPolyline
  \/ ScriptExport \/ ScriptImportDownloaded
  \/ StoreMouseDown \/ StoreMouseMove \/ StoreMouseUp \/ StoreToolButton
  \/ StoreClearButton \/ StoreImportDocument \/ StoreImportPolyline
  \/ StoreExport \/ StoreImportDownloaded

SvgSpec == Init /\ [][SvgNext]_vars

PointLists(shs) == [i \in 1..Len(shs) |-> shs[i].points]

\* the point lists of the elements of a document, as texts
PointTexts(svgDoc) == [i \in 1..Len(svgDoc.elements) |-> svgDoc.elements[i].points]

\* export and import of the running implementation
ExportOf(shs) == IF impl = "script" THEN exportSVG(shs) ELSE exportToSVG(shs)
ParseOf(svgDoc) ==
  IF impl = "script" THEN parseSVGContent(svgDoc) ELSE EngineParseSVGContent(svgDoc)

\* C21: for every drawing state whose shapes have grid-snapped points,
\* exporting to SVG and importing the result yields, in the same order, one
\* shape per exported shape with exactly the same point sequence, so that a
\* second export has the same point lists as the first.
C21_ExportImportKeepsPoints ==
  LET svgDoc == ExportOf(Vals(shapes))
      imported == ParseOf(svgDoc)
  IN  /\ PointLists(imported) = PointLists(shapes)
      /\ PointTexts(ExportOf(imported)) = PointTexts(svgDoc)

\* the drawing holds two shapes with different outlines: a polyline and a
\* triangle one vertex of which was dragged to another grid point
C21_Witness ==
  /\ Len(shapes) = 2 /\ ~isDragging
  /\ \E i, k \in 1..2 :
       /\ Len(shapes[i].points) = 2
       /\ Len(shapes[k].points) = 3 /\ shapes[k].points # Triangle
       /\ Top(undoStack).type \in {"EditShapePointCommand", "EDIT_SHAPE_POINT"}

\* the import handler of the running implementation applied to a document
ImportOf(S, svgDoc) ==
  IF impl = "script" THEN handleFileImport(S, parseSVGContent(svgDoc))
  ELSE EngineImportFromSVG(S, EngineParseSVGContent(svgDoc))

\* the elements an import looks at
Considered(svgDoc) ==
  SelectSeq(svgDoc.elements,
            LAMBDA el : IsShapeElement(el) /\ (impl = "script" /\ svgDoc.group => el.inGroup))

IsValidPair(pair) == pair.xStr[1] = "number" /\ pair.yStr[1] = "number"
ValidPairs(el) == SelectSeq(el.points, IsValidPair)
Survives(el) == el.hasPoints /\ Len(ValidPairs(el)) >= 2
SnappedPoints(el) ==
  LET pairs == ValidPairs(el)
  IN  [i \in 1..Len(pairs) |-> Snap(Pt(pairs[i].xStr[2], pairs[i].yStr[2]))]

\* C22: import never fails on malformed content: an element with no points
\* attribute or with fewer than 2 valid numeric points is discarded, an
\* invalid coordinate pair is skipped, and when no shape survives the import
\* is a no-op that leaves shapes, paletteColors, shapeIdCounter, undoStack
\* and redoStack (and everything else) unchanged.
C22_MalformedImportIsSafe ==
  \A svgDoc \in SvgDocuments :
     LET S1 == ImportOf(State, svgDoc)
         kept == SelectSeq(Considered(svgDoc), Survives)
         added == SubSeq(S1.shapes, Len(shapes) + 1, Len(S1.shapes))
     IN  /\ SubSeq(S1.shapes, 1, Len(shapes)) = shapes
         /\ PointLists(added) = [i \in 1..Len(kept) |-> SnappedPoints(kept[i])]
         /\ kept = <<>> => S1 = State

\* the document with the junk pairs was imported into a drawing that already
\* held a shape: its one surviving polygon is there with its 3 valid points
C22_Witness ==
  /\ Len(shapes) = 2 /\ Len(undoStack) = 2
  /\ shapes[2].color = Red /\ shapes[2].points = SnappedPoints(DocMixed.elements[2])
  /\ Len(shapes[2].points) = 3
  /\ Len(shapes[1].points) = 2

\* documents with one polygon that has 3 valid points: off the grid, or with
\* two of them beside the same grid intersection; with and without colours
NearOrigin == <<Pt(1, 0), Pt(-1, 1), Pt(4, 2)>>
OnePolygonDocs ==
  {[group |-> FALSE,
    elements |-> <<Element("polygon", FALSE, TRUE, [i \in 1..3 |-> PairText(pts[i])],
                           colors[1], colors[2])>>] :
     pts \in {OffGrid, NearOrigin},
     colors \in {<<"", "">>, <<Red, "">>, <<"", "#123456">>}}

\* C23: after importing an SVG that contains one polygon with 3 valid
\* points, the shape collection has gained exactly one shape with 3 points
\* and a fresh id, each of its points is a fixed point of snapping (a grid
\* intersection), and the shape's colour is an element of paletteColors.
C23_ImportOnePolygon ==
  \A svgDoc \in OnePolygonDocs :
     LET S1 == ImportOf(State, svgDoc)
         n == Len(shapes)
     IN  /\ Len(S1.shapes) = n + 1
         /\ SubSeq(S1.shapes, 1, n) = shapes
         /\ Len(S1.shapes[n + 1].points) = 3
         /\ \A i \in 1..n : S1.shapes[n + 1].id # shapes[i].id
         /\ S1.shapes[n + 1].id > shapeIdCounter
         /\ \A i \in 1..3 : Snap(S1.shapes[n + 1].points[i]) = S1.shapes[n + 1].points[i]
         /\ S1.shapes[n + 1].color \in Range(S1.paletteColors)

\* the document with one uncoloured polygon was imported: the drawing holds
\* the polygon on the grid triangle its points snap to, in black
C23_Witness ==
  /\ Len(shapes) = 1 /\ Len(undoStack) = 1 /\ IsImport(undoStack[1])
  /\ shapes[1].points = Triangle /\ shapes[1].points # OffGrid
  /\ shapes[1].color = Black /\ shapes[1].id = 1
  /\ Black \in Range(paletteColors)


-----------------------------------------------------------------------------
(* PaletteSpec: sessions that import a file of MaxSwatches shapes, each of  *)
(* its own colour, so that the palette fills up and overflows               *)

SwatchBook ==
  <<"#101010", "#202020", "#303030", "#404040", "#505050", "#606060", "#707070",
    "#808080", "#909090", "#A0A0A0", "#B0B0B0", "#C0C0C0", "#D0D0D0", "#E0E0E0">>

Swatches == SubSeq(SwatchBook, 1, MaxSwatches)

SwatchFile == [i \in 1..MaxSwatches |-> [points |-> Triangle, color |-> Swatches[i]]]

ScriptImportSwatches ==
  /\ impl = "script"
  /\ ~GestureInProgress
  /\ Step(handleFileImport(State, SwatchFile), "button")

StoreImportSwatches ==
  /\ impl = "store"
  /\ ~GestureInProgress
  /\ Step(EngineImportFromSVG(State, SwatchFile), "button")

PaletteNext ==
  \/ ScriptImportSwatches \/ ScriptMouseDown \/ ScriptMouseUp
  \/ ScriptUndo \/ ScriptRedo
  \/ ScriptSetActiveTool \/ ScriptClearCanvas \/ ScriptPickColor
  \/ StoreImportSwatches \/ StoreMouseDown \/ StoreMouseUp
  \/ StoreUndoAction \/ StoreRedoAction
  \/ StoreToolButton \/ StoreClearButton \/ StorePickColor

PaletteInit == ProgramInit /\ call = PaletteSession

PaletteSpec == PaletteInit /\ [][PaletteNext]_vars

NoDuplicates(s) == \A i, j \in 1..Len(s) : i # j => s[i] # s[j]

\* C24: after any sequence of add, fill, delete, import, clear, undo and redo
\* the palette holds at most maxPaletteSize entries and no colour twice
C24_PaletteBoundedAndDistinct ==
  /\ Len(paletteColors) <= maxPaletteSize
  /\ NoDuplicates(paletteColors)

\* the swatch file was imported, a shape was then filled with another colour,
\* and the palette is full with the file's oldest colours gone from it
C24_Witness ==
  /\ Len(paletteColors) = maxPaletteSize
  /\ Len(shapes) = MaxSwatches
  /\ \E i \in 1..Len(shapes) : shapes[i].color = Red
  /\ paletteColors[maxPaletteSize] = Red
  /\ \A i \in 1..Len(paletteColors) : paletteColors[i] # Swatches[1]


-----------------------------------------------------------------------------
(* AddColorSpec: addPaletteColor applied to palettes of every length up to  *)
(* maxPaletteSize                                                           *)

Reverse(s) == [i \in 1..Len(s) |-> s[Len(s) + 1 - i]]

\* palettes without duplicates: runs of the swatch book, oldest first or last
PaletteInputs ==
  LET ends == {<<a, b>> \in (1..MaxSwatches) \X (0..MaxSwatches) :
                 b >= a - 1 /\ b - a < maxPaletteSize}
      runs == {SubSeq(Swatches, e[1], e[2]) : e \in ends}
  IN  runs \cup {Reverse(r) : r \in runs}

AddColorInit ==
  /\ ProgramInit
  /\ \E pal \in PaletteInputs :
       call = [fn |-> "addPaletteColor", calls |-> 0, before |-> pal,
               color |-> "", paletteColors |-> pal]

CallAddPaletteColor ==
  /\ call.fn = "addPaletteColor" /\ call.calls < MaxAdds
  /\ \E color \in Range(Swatches) :
       call' = [fn |-> "addPaletteColor", calls |-> call.calls + 1,
                before |-> call.paletteColors, color |-> color,
                paletteColors |-> addPaletteColor(call.paletteColors, color)]
  /\ UNCHANGED <<impl, drawingVars, gestureVars, historyVars, storage, quotaExceeded>>

AddColorNext == CallAddPaletteColor

AddColorSpec == AddColorInit /\ [][AddColorNext]_vars

Without(s, e) == SelectSeq(s, LAMBDA x : x # e)

\* C25: after addPaletteColor(c), c is the last entry; the other entries keep
\* their relative order; when c was present nothing else is removed; when c
\* was absent and the palette held maxPaletteSize entries, exactly the oldest
\* one is removed
C25_AddPaletteColorOrder ==
  (call.fn = "addPaletteColor" /\ call.calls > 0) =>
    LET before == call.before
        after == call.paletteColors
        c == call.color
        present == \E i \in 1..Len(before) : before[i] = c
    IN  /\ Len(after) > 0 /\ after[Len(after)] = c
        /\ present => Front(after) = Without(before, c)
        /\ (~present /\ Len(before) = maxPaletteSize) => Front(after) = Tail(before)
        /\ (~present /\ Len(before) < maxPaletteSize) => Front(after) = before

\* a colour the full palette did not hold was added, and then its then-oldest
\* colour was added again
C25_Witness ==
  /\ call.fn = "addPaletteColor" /\ call.calls = 2
  /\ Len(call.before) = maxPaletteSize
  /\ call.color = call.before[1]
  /\ call.before[maxPaletteSize] = Swatches[MaxSwatches]
  /\ call.before[1] = Swatches[2]
  /\ call.paletteColors[1] = Swatches[3]


-----------------------------------------------------------------------------
(* The palette across undo *)

\* the undo-stack entries of the commands that write paletteColors when they
\* are applied: add shape, fill, import, and in script.js clear canvas (the
\* store's clearCanvas leaves the palette alone)
ChangesPaletteOnApply(c) ==
  c.type \in {"AddShapeCommand", "FillShapeCommand", "ImportShapesCommand",
              "ClearAllCommand",
              "DELETE_SHAPE", "FILL_SHAPE", "DELETE_MULTIPLE_SHAPES"}

\* C26: undoing a command that changed paletteColors when it was applied (add
\* shape, fill, import, clear-all) leaves paletteColors as it was immediately
\* before the undo
C26_UndoKeepsPalette ==
  [][(UndoInverts /\ ChangesPaletteOnApply(Top(undoStack)))
       => paletteColors' = paletteColors]_vars


-----------------------------------------------------------------------------
(* Stale commands *)

\* no shape with id is at the recorded index
NotAt(shs, index, id) == index \notin 1..Len(shs) \/ shs[index].id # id

NoneOf(shs, ids) == \A i \in 1..Len(shs) : shs[i].id \notin ids

\* the undo of c needs a shape that is not there (any more)
StaleOnUndo(c, shs) ==
  CASE c.type \in {"FillShapeCommand", "EditShapePointCommand"} ->
         NotAt(shs, c.shapeIndex, c.targetId)
    [] c.type = "EDIT_SHAPE_POINT" -> NotAt(shs, c.payload.shapeIndex, c.targetId)
    [] c.type \in {"AddShapeCommand", "ImportShapesCommand", "DELETE_SHAPE",
                   "FILL_SHAPE", "DELETE_MULTIPLE_SHAPES"} -> NoneOf(shs, Subject(c))
    [] OTHER -> FALSE

\* the redo of c needs a shape that is not there (any more)
StaleOnRedo(c, shs) ==
  CASE c.type \in {"FillShapeCommand", "EditShapePointCommand"} ->
         NotAt(shs, c.shapeIndex, c.targetId)
    [] c.type = "DeleteShapeCommand" -> NotAt(shs, c.shapeIndex, c.deletedShape.id)
    [] c.type = "EDIT_SHAPE_POINT" -> NotAt(shs, c.payload.shapeIndex, c.targetId)
    [] c.type \in {"DELETE_SHAPE", "FILL_SHAPE", "DELETE_MULTIPLE_SHAPES"} ->
         NoneOf(shs, Subject(c))
    [] OTHER -> FALSE

-----------------------------------------------------------------------------
(* Persistence: the page is loaded with an item in localStorage *)

KnownCommands ==
  {"AddShapeCommand", "DeleteShapeCommand", "FillShapeCommand",
   "EditShapePointCommand", "ClearAllCommand", "ImportShapesCommand"}

\* const { type, data } = serializedCommand of null, or data.<field> of an
\* entry without data: a TypeError
RebuildThrows(entry) ==
  entry.isNull \/ (entry.type \in KnownCommands /\ ~entry.hasData)

\* new <CommandClass>(this, data.<fields>)
RebuildCommand(entry) ==
  LET data == entry.data
  IN  CASE entry.type = "AddShapeCommand" ->
             [type |-> entry.type, shapeData |-> data.shapeData]
        [] entry.type = "DeleteShapeCommand" ->
             [type |-> entry.type, shapeIndex |-> data.shapeIndex,
              deletedShape |-> data.deletedShape]
        [] entry.type = "FillShapeCommand" ->
             [type |-> entry.type, shapeIndex |-> data.shapeIndex,
              oldColor |-> data.oldColor, newColor |-> data.newColor,
              targetId |-> data.targetId]
        [] entry.type = "EditShapePointCommand" ->
             [type |-> entry.type, shapeIndex |-> data.shapeIndex,
              pointIndex |-> data.pointIndex, oldPoint |-> data.oldPoint,
              newPoint |-> data.newPoint, targetId |-> data.targetId]
        [] entry.type = "ClearAllCommand" ->
             [type |-> entry.type, originalShapes |-> data.originalShapes]
        [] entry.type = "ImportShapesCommand" ->
             [type |-> entry.type, shapesToAdd |-> data.shapesToAdd]

RECURSIVE RebuildAll(_)
\* .map(...).filter(command => command !== null): entries of unknown type drop out
RebuildAll(serializedStack) ==
  IF serializedStack = <<>> THEN <<>>
  ELSE LET entry == Head(serializedStack)
       IN  IF entry.type \in KnownCommands
           THEN <<RebuildCommand(entry)>> \o RebuildAll(Tail(serializedStack))
           ELSE RebuildAll(Tail(serializedStack))

deserializeCommandStack(serializedStack) ==
  IF \E i \in 1..Len(serializedStack) : RebuildThrows(serializedStack[i])
  THEN [threw |-> TRUE, commands |-> <<>>]
  ELSE [threw |-> FALSE, commands |-> RebuildAll(serializedStack)]

FiveFields == {"shapes", "paletteColors", "shapeIdCounter", "undoStack", "redoStack"}

loadStateFromLocalStorage(S) ==
  LET state == S.storage
  IN  IF state.kind = "none" THEN S
      ELSE IF state.kind = "unparsable" THEN clearLocalStorage(S)
      ELSE IF state.absent \cap FiveFields # {} THEN clearLocalStorage(S)
      ELSE LET s1 == [S EXCEPT !.shapes = Freshs(state.shapes),
                               !.paletteColors = state.paletteColors,
                               !.shapeIdCounter = state.shapeIdCounter]
               undo == deserializeCommandStack(state.undoStack)
               redo == deserializeCommandStack(state.redoStack)
           IN  IF undo.threw THEN clearLocalStorage(s1)
               ELSE IF redo.threw
                    THEN clearLocalStorage([s1 EXCEPT !.undoStack = undo.commands])
                    ELSE [s1 EXCEPT !.undoStack = undo.commands,
                                    !.redoStack = redo.commands]

\* set(state) merges the fields the parsed object has
StoreLoadStateFromLocalStorage(S) ==
  LET state == S.storage
  IN  IF state.kind \in {"none", "unparsable"} THEN S
      ELSE IF /\ state.absent \cap {"shapes", "paletteColors", "shapeIdCounter"} = {}
              /\ state.shapeIdCounter # 0
           THEN [S EXCEPT !.shapes = Freshs(state.shapes),
                          !.paletteColors = state.paletteColors,
                          !.shapeIdCounter = state.shapeIdCounter,
                          !.undoStack = IF "undoStack" \in state.absent THEN @
                                        ELSE state.undoStack,
                          !.redoStack = IF "redoStack" \in state.absent THEN @
                                        ELSE state.redoStack]
           ELSE S

\* the constructor of IsometricDrawingTool, or the initial state of the store,
\* before the stored item is read
ConstructorState(which, item) ==
  [shapes |-> <<>>,
   paletteColors |-> IF which = "store" THEN StoreInitialPalette ELSE <<>>,
   shapeIdCounter |-> 0, undoStack |-> <<>>, redoStack |-> <<>>,
   activeTool |-> "draw", currentColor |-> Black,
   isDrawing |-> FALSE, currentShapePoints |-> <<>>,
   isDragging |-> FALSE, selectedShapeIndex |-> 0, selectedPointIndex |-> 0,
   dragStartPoint |-> <<>>, op |-> "none", storage |-> item,
   quotaExceeded |-> quotaExceeded]

\* the state a page load leaves
PageLoad(which, item) ==
  LET S0 == ConstructorState(which, item)
  IN  IF which = "script" THEN loadStateFromLocalStorage(S0)
      ELSE SaveOnChange(S0, StoreLoadStateFromLocalStorage(S0))

ScriptReload ==
  /\ impl = "script"
  /\ Step(loadStateFromLocalStorage(ConstructorState("script", storage)), "load")

StoreReload ==
  /\ impl = "store"
  /\ Step(StoreLoadStateFromLocalStorage(ConstructorState("store", storage)), "load")


(* PersistSpec: sessions that start from a stored item, sound or damaged,   *)
(* and reload the page                                                      *)

Unparsable == [kind |-> "unparsable"]

RedTriangle == [id |-> 1, points |-> Triangle, color |-> Red]
RedPolyline == [id |-> 2, points |-> Polyline, color |-> Red]

NullEntry == [isNull |-> TRUE, type |-> "", hasData |-> FALSE, data |-> <<>>]
UnknownEntry == [isNull |-> FALSE, type |-> "MoveShapeCommand", hasData |-> TRUE, data |-> <<>>]

\* an item of script.js whose history does not fit its shapes: the fill was
\* recorded for shape 2, the deletion for shape 2, both at the index of shape 1
StaleScriptItem ==
  StateItem(<<RedTriangle, RedPolyline>>, <<Black, Red>>, 2,
            <<SerializeCommand([type |-> "FillShapeCommand", shapeIndex |-> 1,
                                oldColor |-> Black, newColor |-> Red, targetId |-> 2])>>,
            <<SerializeCommand([type |-> "DeleteShapeCommand", shapeIndex |-> 1,
                                deletedShape |-> RedPolyline])>>)

\* an item of script.js with an entry that is null, or of no known class
BrokenScriptItem(entry) ==
  StateItem(<<RedTriangle>>, <<Red>>, 1,
            <<SerializeCommand([type |-> "AddShapeCommand", shapeData |-> RedTriangle]),
              entry>>,
            <<>>)

\* an item of the store whose history does not fit its shapes
StaleStoreItem ==
  StateItem(<<RedTriangle, RedPolyline>>, <<Black, Red>>, 2,
            <<[type |-> "FILL_SHAPE", payload |-> [shapeId |-> 2, color |-> Black]],
              [type |-> "EDIT_SHAPE_POINT", targetId |-> 2,
               payload |-> [shapeIndex |-> 1, pointIndex |-> 1, point |-> G10]]>>,
            <<[type |-> "DELETE_SHAPE", payload |-> [shapeId |-> 7]]>>)

SoundStoreItem ==
  StateItem(<<RedTriangle>>, <<Black, Red>>, 1,
            <<[type |-> "DELETE_SHAPE", payload |-> [shapeId |-> 1]]>>, <<>>)

WithoutFields(item, fields) == [item EXCEPT !.absent = fields]

StoredItems(which) ==
  IF which = "script"
  THEN {NoItem, Unparsable, StaleScriptItem,
        BrokenScriptItem(NullEntry), BrokenScriptItem(UnknownEntry),
        WithoutFields(StaleScriptItem, {"redoStack"})}
  ELSE {NoItem, Unparsable, StaleStoreItem, SoundStoreItem,
        WithoutFields(SoundStoreItem, {"undoStack", "redoStack"}),
        WithoutFields(SoundStoreItem, {"shapes"})}

\* the commands an earlier session recorded in the item
Recorded(item) ==
  IF item.kind = "state" THEN Len(item.undoStack) + Len(item.redoStack) ELSE 0

\* writes fail for the whole session or not at all; the store's write is not
\* guarded by try/catch and its failure is not part of this specification
PersistInit ==
  /\ MemoryInit
  /\ call = NoCall
  /\ quotaExceeded \in (IF impl = "script" THEN BOOLEAN ELSE {FALSE})

NothingDoneYet ==
  /\ executed = 0 /\ ~GestureInProgress
  /\ shapes = <<>> /\ undoStack = <<>> /\ redoStack = <<>> /\ shapeIdCounter = 0

\* an earlier session, or another page of the origin, has left an item
ItemLeftBehind ==
  /\ NothingDoneYet /\ storage = NoItem
  /\ \E item \in StoredItems(impl) \ {NoItem} :
       /\ storage' = item
       /\ executed' = Recorded(item)
  /\ UNCHANGED <<impl, drawingVars, gestureVars, seqSnaps, beforeUndo, dragPre,
                 call, quotaExceeded>>

PersistNext ==
  \/ ScriptMouseDown \/ ScriptMouseMove \/ ScriptMouseUp
  \/ ScriptUndo \/ ScriptRedo
  \/ ScriptSetActiveTool \/ ScriptClearCanvas \/ ScriptImport \/ ScriptPickColor
  \/ ScriptReload
  \/ StoreMouseDown \/ StoreMouseMove \/ StoreMouseUp
  \/ StoreUndoAction \/ StoreRedoAction
  \/ StoreToolButton \/ StoreClearButton \/ StoreImport \/ StorePickColor
  \/ StoreReload
  \/ ItemLeftBehind

PersistSpec == PersistInit /\ [][PersistNext]_vars


\* C27: when undo or redo reaches a stale command (its target id is not in
\* the collection, or the shape at its recorded index has another id, as
\* after loading a damaged persisted history), the command changes no shape
\* of the collection, and it moves to the other stack so that the rest of
\* the history can still be undone and redone
C27_StaleCommandSkipped ==
  [][/\ (UndoInverts /\ StaleOnUndo(Top(undoStack), shapes))
          => (Vals(shapes') = Vals(shapes) /\ undoStack' = Front(undoStack))
     /\ (RedoApplies /\ StaleOnRedo(Top(redoStack), shapes))
          => (Vals(shapes') = Vals(shapes) /\ redoStack' = Front(redoStack))]_vars


-----------------------------------------------------------------------------
(* Save and load *)

\* the running state written to localStorage and read back by a page load
SavedAndLoaded ==
  LET S == [State EXCEPT !.quotaExceeded = FALSE]
  IN  PageLoad(impl, (IF impl = "script" THEN saveStateToLocalStorage(S)
                      ELSE StoreSaveStateToLocalStorage(S)).storage)

UndoRedoSequences == UNION {[1..n -> {"undo", "redo"}] : n \in 0..MaxReplay}

RECURSIVE Replay(_, _)
\* the presses of undo and redo in w, one after the other
Replay(S, w) ==
  IF w = <<>> THEN S
  ELSE Replay(IF Head(w) = "undo" THEN UndoOf(S) ELSE RedoOf(S), Tail(w))

\* C28: saving the state and loading it back reproduces shapes,
\* paletteColors, shapeIdCounter and both stacks with the same commands in
\* the same order, and every sequence of undo and redo gives the same shape
\* collection after the reload as without it
C28_SaveLoadRoundTrip ==
  ~GestureInProgress =>
    LET L == SavedAndLoaded
    IN  /\ Vals(L.shapes) = Vals(shapes)
        /\ L.paletteColors = paletteColors
        /\ L.shapeIdCounter = shapeIdCounter
        /\ L.undoStack = undoStack
        /\ L.redoStack = redoStack
        /\ \A w \in UndoRedoSequences :
             Vals(Replay(L, w).shapes) = Vals(Replay(State, w).shapes)


\* a page load now would restore the five fields as they are in memory
SnapshotCurrent ==
  LET L == PageLoad(impl, storage)
  IN  /\ Vals(L.shapes) = Vals(shapes)
      /\ L.paletteColors = paletteColors
      /\ L.shapeIdCounter = shapeIdCounter
      /\ L.undoStack = undoStack
      /\ L.redoStack = redoStack

\* C29: after every completed user action that changes the shapes or the
\* history (the execute of any command, clear canvas included, an undo, a
\* redo) the persisted snapshot equals the shapes, palette, shapeIdCounter,
\* undoStack and redoStack in memory
C29_SnapshotFollowsHistory ==
  [][(ExecuteStep \/ UndoInverts \/ RedoApplies) => SnapshotCurrent']_vars


-----------------------------------------------------------------------------
(* Failures of reading and of writing *)

CannotRebuild(entry) == entry.isNull \/ entry.type \notin KnownCommands \/ ~entry.hasData

\* the item is not JSON, lacks one of the five fields, or (script.js, whose
\* stacks are rebuilt into commands) holds a stack entry that cannot be rebuilt
ReadFails(item) ==
  \/ item.kind = "unparsable"
  \/ /\ item.kind = "state"
     /\ \/ item.absent \cap FiveFields # {}
        \/ /\ impl = "script"
           /\ \E i \in 1..Len(item.undoStack) : CannotRebuild(item.undoStack[i])
        \/ /\ impl = "script"
           /\ \E i \in 1..Len(item.redoStack) : CannotRebuild(item.redoStack[i])

EmptyInitialState ==
  /\ shapes = <<>> /\ undoStack = <<>> /\ redoStack = <<>>
  /\ shapeIdCounter = 0
  /\ paletteColors = IF impl = "store" THEN StoreInitialPalette ELSE <<>>

\* the state in memory that handler leaves from the running state when
\* writes work
WithWorkingStorage == [State EXCEPT !.quotaExceeded = FALSE]

InMemory(S) ==
  [drawing |-> [DrawingOf(S) EXCEPT !.shapes = Vals(@)],
   gesture |-> <<S.activeTool, S.currentColor, S.isDrawing, S.currentShapePoints,
                 S.isDragging, S.selectedShapeIndex, S.selectedPointIndex,
                 S.dragStartPoint>>]

AsWith(S) == InMemory(State)' = InMemory(S)

\* C30: a failure while reading the persisted state leaves the empty initial
\* state in memory, none of the persisted fields applied; a failure while
\* writing leaves the result of the operation in memory exactly as it is
\* with working storage
C30_StorageFailuresContained ==
  [][/\ ((ScriptReload \/ StoreReload) /\ ReadFails(storage)) => EmptyInitialState'
     /\ quotaExceeded =>
          /\ ScriptUndo => AsWith(ToolUndo(WithWorkingStorage))
          /\ ScriptRedo => AsWith(ToolRedo(WithWorkingStorage))
          /\ ScriptClearCanvas => AsWith(clearCanvas(WithWorkingStorage))
          /\ ScriptMouseUp => AsWith(handleMouseUp(WithWorkingStorage))
          /\ ScriptMouseDown =>
               (\E p \in ClicksFor(activeTool, currentShapePoints) :
                  AsWith(handleMouseDown(WithWorkingStorage, p)))
          /\ ScriptImport =>
               (\E file \in ImportFiles :
                  AsWith(handleFileImport(WithWorkingStorage, file)))]_vars

-----------------------------------------------------------------------------
(* The Escape key                                                           *)

\* the state two presses of Escape leave
EscapedTwice == EscapeOf(EscapeOf(State))

\* C31: Escape pressed while a drawing is in progress cancels the drawing
\* and keeps the draw tool; Escape pressed while no drawing is in progress
\* and the fill, delete or edit tool is active makes draw the active tool;
\* from any reachable state at most two presses of Escape lead to the draw
\* tool with no drawing and no drag in progress.
C31_EscapeReturnsToDraw ==
  /\ isDrawing =>
       /\ ~EscapeOf(State).isDrawing
       /\ EscapeOf(State).currentShapePoints = <<>>
       /\ EscapeOf(State).activeTool = "draw"
  /\ (~isDrawing /\ activeTool \in {"fill", "delete", "edit"}) =>
       EscapeOf(State).activeTool = "draw"
  /\ /\ EscapedTwice.activeTool = "draw"
     /\ ~EscapedTwice.isDrawing
     /\ ~EscapedTwice.isDragging

-----------------------------------------------------------------------------
(* The undo of a delete                                                     *)

\* the entry on top of undoStack inverts a delete
UndoesDelete ==
  /\ undoStack # <<>>
  /\ Top(undoStack).type \in {"DeleteShapeCommand", "ADD_SHAPE"}

\* the shape the delete captured
CapturedShape(c) ==
  IF c.type = "DeleteShapeCommand" THEN c.deletedShape ELSE c.payload.shape

\* C32: undoing a delete re-adds the captured shape at the end of the shape
\* order, whatever position the shape had before it was deleted.
C32_UndoDeleteAppends ==
  [][UndoesDelete /\ UndoInverts =>
       Vals(shapes') = Append(Vals(shapes), Val(CapturedShape(Top(undoStack))))]_vars

-----------------------------------------------------------------------------
(* The pointer moving while a point is dragged                              *)

\* shs1 differs from shs in nothing but the point j of the shape at index i
OnlyPointChanged(shs, shs1, i, j) ==
  /\ Len(shs1) = Len(shs)
  /\ \A k \in 1..Len(shs) :
       /\ shs1[k].id = shs[k].id
       /\ shs1[k].color = shs[k].color
       /\ Len(shs1[k].points) = Len(shs[k].points)
       /\ \A m \in 1..Len(shs[k].points) :
            (k # i \/ m # j) => shs1[k].points[m] = shs[k].points[m]

\* C33: while a point is dragged, each pointer-move changes only the
\* selected point of the selected shape, to the snapped pointer position;
\* every other point, every other shape, the palette, shapeIdCounter,
\* undoStack and redoStack are unchanged and the drag goes on.
C33_DragMoveFrame ==
  [][isDragging /\ DragMove =>
       /\ OnlyPointChanged(shapes, shapes', selectedShapeIndex, selectedPointIndex)
       /\ \E p \in MoveClicks :
            shapes'[selectedShapeIndex].points[selectedPointIndex] = Snap(p)
       /\ paletteColors' = paletteColors
       /\ shapeIdCounter' = shapeIdCounter
       /\ undoStack' = undoStack
       /\ redoStack' = redoStack
       /\ isDragging'
       /\ selectedShapeIndex' = selectedShapeIndex
       /\ selectedPointIndex' = selectedPointIndex]_vars

-----------------------------------------------------------------------------
(* Sessions about the number of points of a shape: drawing with clicks back *)
(* on the first point at any moment, imports of a 2-point polyline, fill,   *)
(* delete, point edits, clear, undo and redo, all in the initial colour     *)

PointCountNext ==
  \/ ScriptMouseDown \/ ScriptMouseDownOnStart \/ ScriptMouseMove \/ ScriptMouseUp
  \/ ScriptUndo \/ ScriptRedo \/ ScriptSetActiveTool \/ ScriptClearCanvas
  \/ ScriptImportPolyline
  \/ StoreMouseDown \/ StoreMouseDownOnStart \/ StoreMouseMove \/ StoreMouseUp
  \/ StoreUndoAction \/ StoreRedoAction \/ StoreToolButton \/ StoreClearButton
  \/ StoreImportPolyline

PointCountSpec == Init /\ [][PointCountNext]_vars

ImportStep ==
  \/ ScriptImport \/ StoreImport
  \/ ScriptImportPolyline \/ StoreImportPolyline

\* a draw-mode click that completes the drawing in progress
DrawingCompleted ==
  /\ isDrawing /\ activeTool = "draw"
  /\ ScriptMouseDown \/ StoreMouseDown \/ ScriptMouseDownOnStart \/ StoreMouseDownOnStart
  /\ ExecuteStep

\* the shapes of shs that did not exist when the counter stood at counter
CreatedSince(shs, counter) == {i \in 1..Len(shs) : shs[i].id > counter}

\* C34: in every reachable state each shape of the collection has at least
\* 2 points; every shape created by completing a drawing has at least 3
\* points; only an import introduces a shape with 2 points.
C34_PointCounts ==
  /\ [](\A i \in 1..Len(shapes) : Len(shapes[i].points) >= 2)
  /\ [][DrawingCompleted =>
          /\ CreatedSince(shapes', shapeIdCounter) # {}
          /\ \A i \in CreatedSince(shapes', shapeIdCounter) :
               Len(shapes'[i].points) >= 3]_vars
  /\ [][(\E i \in CreatedSince(shapes', shapeIdCounter) : Len(shapes'[i].points) = 2)
          => ImportStep]_vars

\* a drawn triangle and an imported 2-point polyline stand side by side
\* after a delete was undone
C34_Witness ==
  /\ \E i \in 1..Len(shapes) : Len(shapes[i].points) = 2
  /\ \E i \in 1..Len(shapes) :
       /\ Len(shapes[i].points) >= 3
       /\ \E k \in 1..Len(undoStack) : undoStack[k].type \in {"AddShapeCommand", "DELETE_SHAPE"}
                                       /\ Subject(undoStack[k]) = {shapes[i].id}
  /\ redoStack # <<>>

-----------------------------------------------------------------------------
(* Sessions about closing a drawing: the first drawing of a session, with   *)
(* clicks within MaxScreen units of the canvas centre; the closing test is  *)
(* examined in each state for every pointer position of that square         *)

ScreenProbes == {Pt(a, b) : a, b \in (0 - MaxScreen)..MaxScreen}

\* the pointer-downs of the session: on a grid intersection or right beside
\* one (every other position is snapped to the same intersections)
ClickProbes == {p \in ScreenProbes : \E q \in {p, Pt(p.x - 1, p.y)} : Snap(q) = q}

ScriptMouseDownAnywhere ==
  /\ impl = "script"
  /\ activeTool = "draw" /\ shapes = <<>>
  /\ \E p \in ClickProbes : Step(handleMouseDown(State, p), "down")

StoreMouseDownAnywhere ==
  /\ impl = "store"
  /\ activeTool = "draw" /\ shapes = <<>>
  /\ \E p \in ClickProbes : Step(EngineMouseDown(State, p), "down")

CloseNext == ScriptMouseDownAnywhere \/ StoreMouseDownAnywhere

CloseSpec == Init /\ [][CloseNext]_vars

MouseDownOf(S, p) == IF impl = "script" THEN handleMouseDown(S, p) ELSE EngineMouseDown(S, p)

\* the handler result S1 has closed the drawing in progress into a shape
Closes(S1) ==
  /\ S1.op = "execute"
  /\ ~S1.isDrawing
  /\ Len(S1.shapes) = Len(shapes) + 1
  /\ S1.shapes[Len(S1.shapes)].points = currentShapePoints

\* the grid intersections whose screen points lie within MaxScreen units
NearbyGrid ==
  {g \in {Pt(gx, gy) : gx, gy \in (0 - MaxScreen)..MaxScreen} : gridToScreen(g) \in ScreenProbes}

\* C35: with cell size 30, drag radius 8 and closing tolerance 144, a
\* draw-mode click closes the shape if and only if at least 3 points are
\* placed and the click snaps to the grid intersection of the start point:
\* every other grid intersection lies at a squared distance of
\* 675*(dgx-dgy)^2 + 225*(dgx+dgy)^2, at least 900, from the start point,
\* outside the closing tolerance.
C35_ClosesOnStartOnly ==
  (isDrawing /\ activeTool = "draw") =>
    LET start == screenToNearestGridPoint(currentShapePoints[1])
    IN  /\ closeToleranceSq = 144
        /\ \A p \in ScreenProbes :
             Closes(MouseDownOf(State, p))
               <=> /\ Len(currentShapePoints) >= 3
                   /\ screenToNearestGridPoint(p) = start
        /\ \A g \in NearbyGrid \ {start} :
             LET d == DistSq(gridToScreen(g), currentShapePoints[1])
             IN  /\ d = 675 * (g.x - start.x - g.y + start.y) * (g.x - start.x - g.y + start.y)
                          + 225 * (g.x - start.x + g.y - start.y) * (g.x - start.x + g.y - start.y)
                 /\ d >= 900
                 /\ d >= closeToleranceSq

\* a drawing that started away from the canvas centre was closed by a click
\* on its start point
C35_Witness ==
  /\ Len(shapes) = 1
  /\ Len(shapes[1].points) = 3
  /\ shapes[1].points[1] # G00

-----------------------------------------------------------------------------
(* Sessions with the keyboard and the toolbar at any moment: undo, redo,    *)
(* Escape, the tool buttons and Clear also arrive in the middle of a        *)
(* drawing or of a drag (handleKeyDown and the button listeners test        *)
(* neither isDrawing nor isDragging before they act).  Every shape is      *)
(* drawn by hand, in the current colour.                                    *)

ScriptUndoAnytime == impl = "script" /\ Step(ToolUndo(State), "key")

ScriptRedoAnytime == impl = "script" /\ Step(ToolRedo(State), "key")

ScriptClearAnytime == impl = "script" /\ Step(clearCanvas(State), "button")

StoreUndoAnytime == impl = "store" /\ Step(StoreUndo(State), "key")

StoreRedoAnytime == impl = "store" /\ Step(StoreRedo(State), "key")

StoreClearAnytime == impl = "store" /\ Step(StoreClearCanvas(State), "button")

AnytimeNext ==
  \/ ScriptMouseDown \/ ScriptMouseMove \/ ScriptMouseUp \/ ScriptMouseOutAnytime
  \/ ScriptUndoAnytime \/ ScriptRedoAnytime \/ ScriptEscapeAnytime \/ ScriptToolAnytime
  \/ ScriptClearAnytime
  \/ StoreMouseDown \/ StoreMouseMove \/ StoreMouseUp \/ StoreMouseOutAnytime
  \/ StoreUndoAnytime \/ StoreRedoAnytime \/ StoreEscapeAnytime \/ StoreToolAnytime
  \/ StoreClearAnytime

AnytimeSpec == Init /\ [][AnytimeNext]_vars

\* C36: while a drag is in progress, under every interleaving of keyboard
\* undo and redo with the pointer events of the drag, the selected shape
\* index and point index refer to a shape and a point that exist in the
\* collection, so that the following pointer-move, redraw or pointer-up
\* never dereferences a missing shape.
C36_SelectionExistsWhileDragging ==
  isDragging =>
    /\ selectedShapeIndex \in 1..Len(shapes)
    /\ selectedPointIndex \in 1..Len(shapes[selectedShapeIndex].points)

\* C37: in script.js, in every reachable state isDrawing is false if and
\* only if currentShapePoints is empty, after any sequence of clicks, Escape,
\* presses of the tool buttons (Draw pressed during a drawing included),
\* clear, undo and redo.
C37_DrawingFlagMatchesPoints ==
  impl = "script" => (~isDrawing <=> currentShapePoints = <<>>)

-----------------------------------------------------------------------------
(* Undo in the middle of a drawing                                          *)

\* C38: in script.js, undo called while a drawing is in progress only
\* cancels the drawing: the shape collection, undoStack and redoStack are
\* unchanged and no command is inverted; a second undo is needed to revert
\* the last command.
C38_UndoWhileDrawingCancels ==
  (impl = "script" /\ isDrawing) =>
    LET first == ToolUndo(State)
        second == ToolUndo(first)
    IN  /\ ~first.isDrawing /\ first.currentShapePoints = <<>>
        /\ first.shapes = shapes
        /\ first.undoStack = undoStack /\ first.redoStack = redoStack
        /\ first.op \notin {"undo", "execute", "redo"}
        /\ undoStack # <<>> =>
             /\ second.op = "undo"
             /\ SameCommands(second.undoStack, Front(undoStack))
             /\ Len(second.redoStack) = Len(redoStack) + 1
             /\ Top(second.redoStack).type = Top(undoStack).type

\* a drawing is in progress in script.js with a command to undo and a
\* command to redo
C38_Witness ==
  /\ impl = "script" /\ isDrawing /\ currentShapePoints # <<>>
  /\ undoStack # <<>> /\ redoStack # <<>>

-----------------------------------------------------------------------------
(* Colours across export and import                                         *)

ColorList(shs) == [i \in 1..Len(shs) |-> shs[i].color]

\* C39: exporting the drawing to SVG and importing the result preserves the
\* colour of every shape, for filled polygons (more than 2 points) and for
\* 2-point polylines alike: each re-imported shape has the colour string of
\* the shape it was exported from.
C39_ExportImportKeepsColors ==
  ColorList(ParseOf(ExportOf(Vals(shapes)))) = ColorList(shapes)

====
